---- MODULE Spec2Model ----
(***************************************************************************)
(* FreeRTOS-Cpp: the C++ binding layer over the FreeRTOS kernel's C API.   *)
(*                                                                         *)
(* The wrapper classes (src/FreeRTOS-Cpp/include/FreeRTOS/*.hpp and the    *)
(* Queue / Timer / StreamBuffer headers) are modelled method by method.    *)
(* Every wrapper method is an operator that yields the kernel calls it     *)
(* makes and the value it returns, given the kernel's answer kr:           *)
(*   kr.ret    the kernel function's return value                          *)
(*   kr.woken  the value of the local  BaseType_t taskWoken  after the     *)
(*             call (pdFALSE unless the kernel wrote pdTRUE through        *)
(*             pxHigherPriorityTaskWoken)                                  *)
(*   kr.out    what the kernel left in the output buffer                   *)
(* The kernel itself (queue.c, tasks.c, timers.c) is a git submodule that  *)
(* is not part of the sources; where a property needs its behaviour, the   *)
(* kernel is modelled from the behaviour the headers document.             *)
(***************************************************************************)
EXTENDS Integers, Sequences, FiniteSets, TLC

VARIABLES
  \* ---- call layer (any wrapper object, task or ISR context)
  ocls,        \* the class of the object whose methods are called
  obj,         \* that object's fields (handle, ...)
  last,        \* the last wrapper invocation: method, arguments, kernel answer, result
  held,        \* the task's call the kernel has not returned from yet, if any
  kobj,        \* kernel side: per handle, the last kernel call applied to it
  inIsr,       \* an interrupt service routine is running
  flag,        \* the ISR's local  bool higherPriorityTaskWoken
  flagInit,    \* the value that local had when the ISR started
  anyWoken     \* some FromISR call of this ISR reported a woken task

VARIABLES
  \* ---- queue layer (one queue, tasks and an ISR using it)
  queue,       \* kernel side: the items held by the queue, front first
  qLen,        \* kernel side: uxQueueLength the queue was created with
  qwait,       \* per task: the queue method it is blocked in, if any
  nextItem,    \* the next fresh item value a sender will post
  posted,      \* history: items whose send returned true since the last reset, in order
  received,    \* history: items returned by receive since the last reset, in order
  ahead,       \* history: <<f, x>> if f was sent to the front while x was queued
  qlast,       \* the last completed queue method
  qprev        \* the completed queue method before that

VARIABLES
  \* ---- task lifetime layer (Task objects constructed and destroyed)
  tobj,        \* per Task object: its life, fields, and what its methods did
  ktasks,      \* kernel side: the tasks that exist
  tcfg         \* the build: INCLUDE_vTaskDelete, and the heap the kernel was given

VARIABLES
  \* ---- timer lifetime layer (a Timer object deleted and destroyed)
  tmr,         \* the Timer object: its life, fields, and what its methods did
  ktmr         \* kernel side: the timers that exist and the timer command queue

VARIABLES
  \* ---- periodic task layer (a task looping on delayUntil)
  dtask,       \* the task object and where its taskFunction stands
  xTickCount,  \* kernel side: the tick counter, TickBits wide
  uxSchedulerSuspended, \* kernel side: suspendAll() calls not yet undone by resumeAll()
  xPendedTicks,         \* kernel side: ticks held back while the scheduler is suspended
  now          \* history: ticks since the scheduler started, not wrapped

VARIABLES
  \* ---- mutex layer (tasks locking and unlocking one Mutex)
  msem,        \* kernel side: the mutex semaphore (count and holder)
  mwait,       \* per task: the lock call it is blocked in, if any
  mheld,       \* the tasks whose lock returned true and that have not unlocked since
  mlast,       \* the last completed lock or unlock call
  mstray       \* history: the mutex was taken from an ISR, or given by a task not holding it

VARIABLES
  \* ---- object lifetime layer (wrapper objects constructed, moved, destroyed)
  lobj,        \* per wrapper object: its life and its fields
  lkern,       \* kernel side: the objects created, their storage, the deletes seen
  lcfg         \* the wrapper class in use and the build's INCLUDE_vTaskDelete

callVars == <<ocls, obj, last, held, kobj, inIsr, flag, flagInit, anyWoken>>
queueVars == <<queue, qLen, qwait, nextItem, posted, received, ahead,
               qlast, qprev>>

taskVars == <<tobj, ktasks, tcfg>>

timerVars == <<tmr, ktmr>>

delayVars == <<dtask, xTickCount, uxSchedulerSuspended, xPendedTicks, now>>

mutexVars == <<msem, mwait, mheld, mlast, mstray>>

lifeVars == <<lobj, lkern, lcfg>>

vars == <<callVars, queueVars, taskVars, timerVars, delayVars, mutexVars, lifeVars>>

\* What an action of one layer leaves alone.
exceptCall == <<queueVars, taskVars, timerVars, delayVars, mutexVars, lifeVars>>
exceptQueue == <<callVars, taskVars, timerVars, delayVars, mutexVars, lifeVars>>
exceptTask == <<callVars, queueVars, timerVars, delayVars, mutexVars, lifeVars>>
exceptTimer == <<callVars, queueVars, taskVars, delayVars, mutexVars, lifeVars>>
exceptDelay == <<callVars, queueVars, taskVars, timerVars, mutexVars, lifeVars>>
exceptMutex == <<callVars, queueVars, taskVars, timerVars, delayVars, lifeVars>>
exceptLife == <<callVars, queueVars, taskVars, timerVars, delayVars, mutexVars>>

(***************************************************************************)
(* Kernel constants (projdefs.h, portmacro.h) as the wrappers use them.    *)
(***************************************************************************)
pdFALSE == 0
pdTRUE == 1
pdPASS == 1
portMAX_DELAY == 65535

NULL == "NULL"
NoHandle == "none"          \* kernel functions that take no handle

\* How a call passes pxHigherPriorityTaskWoken.
NoWokenPtr == "absent"      \* the kernel function has no such parameter
NullWokenPtr == "NULL"      \* NULL is passed
TaskWokenPtr == "&taskWoken"

\* std::optional<T>
None == <<>>
Some(x) == <<x>>
Void == "void"

\* One call of a kernel function as the kernel sees it.
KCall(fn, handle, args, wokenPtr) ==
  [fn |-> fn, handle |-> handle, args |-> args, wokenPtr |-> wokenPtr]

\* The answer slot of a call the kernel has not answered yet.
NoAnswer == [ret |-> pdFALSE, woken |-> pdFALSE, out |-> 0]

\* std::bitset<N> values are sets of bit positions.
RECURSIVE to_ulong(_)
to_ulong(bits) ==
  IF bits = {} THEN 0
  ELSE LET b == CHOOSE x \in bits : TRUE
       IN  2 ^ b + to_ulong(bits \ {b})

\* std::bitset<32>(unsigned long)
BitWidth == 4
from_ulong(n) == {b \in 0 .. (BitWidth - 1) : (n \div (2 ^ b)) % 2 = 1}

\* SemaphoreBase::take (Semaphore.hpp:115-117)
SemaphoreBase_take(this, ticksToWait, kr) ==
  [calls |-> <<KCall("xSemaphoreTake", this.handle, <<ticksToWait>>, NoWokenPtr)>>,
   ret |-> (kr.ret = pdTRUE)]

\* SemaphoreBase::takeFromISR(bool&) (Semaphore.hpp:148-155)
SemaphoreBase_takeFromISR(this, higherPriorityTaskWoken, kr) ==
  LET taskWoken == kr.woken
  IN  [calls |-> <<KCall("xSemaphoreTakeFromISR", this.handle, <<>>, TaskWokenPtr)>>,
       ret |-> (kr.ret = pdTRUE),
       flag |-> IF taskWoken = pdTRUE THEN TRUE ELSE higherPriorityTaskWoken]

\* SemaphoreBase::takeFromISR() (Semaphore.hpp:167-169)
SemaphoreBase_takeFromISR0(this, kr) ==
  [calls |-> <<KCall("xSemaphoreTakeFromISR", this.handle, <<>>, NullWokenPtr)>>,
   ret |-> (kr.ret = pdTRUE)]

\* SemaphoreBase::give (Semaphore.hpp:192-192)
SemaphoreBase_give(this, kr) ==
  [calls |-> <<KCall("xSemaphoreGive", this.handle, <<>>, NoWokenPtr)>>,
   ret |-> (kr.ret = pdTRUE)]

\* Variant: assigns the kernel's report to the caller's flag.
SemaphoreBase_giveFromISR_assign(this, higherPriorityTaskWoken, kr) ==
  LET taskWoken == kr.woken
  IN  [calls |-> <<KCall("xSemaphoreGiveFromISR", this.handle, <<>>, TaskWokenPtr)>>,
       ret |-> (kr.ret = pdTRUE),
       flag |-> (taskWoken = pdTRUE)]

\* SemaphoreBase::giveFromISR(bool&) (Semaphore.hpp:217-224)
SemaphoreBase_giveFromISR(this, higherPriorityTaskWoken, kr) ==
  LET taskWoken == kr.woken
  IN  [calls |-> <<KCall("xSemaphoreGiveFromISR", this.handle, <<>>, TaskWokenPtr)>>,
       ret |-> (kr.ret = pdTRUE),
       flag |-> IF taskWoken = pdTRUE THEN TRUE ELSE higherPriorityTaskWoken]

\* SemaphoreBase::giveFromISR() (Semaphore.hpp:236-238)
SemaphoreBase_giveFromISR0(this, kr) ==
  [calls |-> <<KCall("xSemaphoreGiveFromISR", this.handle, <<>>, NullWokenPtr)>>,
   ret |-> (kr.ret = pdTRUE)]

\* SemaphoreBase::isValid (Semaphore.hpp:71-71)
SemaphoreBase_isValid(this) == this.handle # NULL

\* MutexBase::isValid (Mutex.hpp:72-72)
MutexBase_isValid(this) == this.handle # NULL

\* Variant: reports the mutex locked whatever the kernel returned.
MutexBase_lock_always(this, ticksToWait, kr) ==
  [calls |-> <<KCall("xSemaphoreTake", this.handle, <<ticksToWait>>, NoWokenPtr)>>,
   ret |-> TRUE]

\* MutexBase::lock (Mutex.hpp:91-93)
MutexBase_lock(this, ticksToWait, kr) ==
  [calls |-> <<KCall("xSemaphoreTake", this.handle, <<ticksToWait>>, NoWokenPtr)>>,
   ret |-> (kr.ret = pdTRUE)]

\* MutexBase::lockFromISR(bool&) (Mutex.hpp:115-122)
MutexBase_lockFromISR(this, higherPriorityTaskWoken, kr) ==
  LET taskWoken == kr.woken
  IN  [calls |-> <<KCall("xSemaphoreTakeFromISR", this.handle, <<>>, TaskWokenPtr)>>,
       ret |-> (kr.ret = pdTRUE),
       flag |-> IF taskWoken = pdTRUE THEN TRUE ELSE higherPriorityTaskWoken]

\* MutexBase::lockFromISR() (Mutex.hpp:134-136)
MutexBase_lockFromISR0(this, kr) ==
  [calls |-> <<KCall("xSemaphoreTakeFromISR", this.handle, <<>>, NullWokenPtr)>>,
   ret |-> (kr.ret = pdTRUE)]

\* MutexBase::unlock (Mutex.hpp:156-156)
MutexBase_unlock(this, kr) ==
  [calls |-> <<KCall("xSemaphoreGive", this.handle, <<>>, NoWokenPtr)>>,
   ret |-> (kr.ret = pdTRUE)]

\* RecursiveMutexBase::lock (Mutex.hpp:227-229)
RecursiveMutexBase_lock(this, ticksToWait, kr) ==
  [calls |-> <<KCall("xSemaphoreTakeRecursive", this.handle, <<ticksToWait>>, NoWokenPtr)>>,
   ret |-> (kr.ret = pdTRUE)]

\* RecursiveMutexBase::unlock (Mutex.hpp:251-253)
RecursiveMutexBase_unlock(this, kr) ==
  [calls |-> <<KCall("xSemaphoreGiveRecursive", this.handle, <<>>, NoWokenPtr)>>,
   ret |-> (kr.ret = pdTRUE)]

\* EventGroupBase::isValid (Mutex.hpp:569-569)
EventGroupBase_isValid(this) == this.handle # NULL

\* EventGroupBase::setFromISR(bool&, const EventBits&) (Mutex.hpp:712-721)
EventGroupBase_setFromISR(this, higherPriorityTaskWoken, bitsToSet, kr) ==
  LET taskWoken == kr.woken
  IN  [calls |-> <<KCall("xEventGroupSetBitsFromISR", this.handle, <<to_ulong(bitsToSet)>>, TaskWokenPtr)>>,
       ret |-> (kr.ret = pdPASS),
       flag |-> IF taskWoken = pdTRUE THEN TRUE ELSE higherPriorityTaskWoken]

\* EventGroupBase::setFromISR(const EventBits&) (Mutex.hpp:734-737)
EventGroupBase_setFromISR0(this, bitsToSet, kr) ==
  [calls |-> <<KCall("xEventGroupSetBitsFromISR", this.handle, <<to_ulong(bitsToSet)>>, NullWokenPtr)>>,
   ret |-> (kr.ret = pdPASS)]

\* EventGroupBase::clearFromISR (Mutex.hpp:785-788)
EventGroupBase_clearFromISR(this, bitsToClear, kr) ==
  [calls |-> <<KCall("xEventGroupClearBitsFromISR", this.handle, <<to_ulong(bitsToClear)>>, NoWokenPtr)>>,
   ret |-> (kr.ret = pdPASS)]

\* QueueBase::isValid (part_019:75-75)
QueueBase_isValid(this) == this.handle # NULL

\* Variant: forwards to the front-posting kernel function.
QueueBase_sendToBack_viaFront(this, item, ticksToWait, kr) ==
  [calls |-> <<KCall("xQueueSendToFront", this.handle, <<item, ticksToWait>>, NoWokenPtr)>>,
   ret |-> (kr.ret = pdTRUE)]

\* QueueBase::sendToBack (part_019:102-105)
QueueBase_sendToBack(this, item, ticksToWait, kr) ==
  [calls |-> <<KCall("xQueueSendToBack", this.handle, <<item, ticksToWait>>, NoWokenPtr)>>,
   ret |-> (kr.ret = pdTRUE)]

\* QueueBase::sendToBackFromISR(bool&, const T&) (part_019:125-134)
QueueBase_sendToBackFromISR(this, higherPriorityTaskWoken, item, kr) ==
  LET taskWoken == kr.woken
  IN  [calls |-> <<KCall("xQueueSendToBackFromISR", this.handle, <<item>>, TaskWokenPtr)>>,
       ret |-> (kr.ret = pdPASS),
       flag |-> IF taskWoken = pdTRUE THEN TRUE ELSE higherPriorityTaskWoken]

\* QueueBase::sendToBackFromISR(const T&) (part_019:146-148)
QueueBase_sendToBackFromISR0(this, item, kr) ==
  [calls |-> <<KCall("xQueueSendToBackFromISR", this.handle, <<item>>, NullWokenPtr)>>,
   ret |-> (kr.ret = pdPASS)]

\* Variant: forwards to the back-posting kernel function.
QueueBase_sendToFront_viaBack(this, item, ticksToWait, kr) ==
  [calls |-> <<KCall("xQueueSendToBack", this.handle, <<item, ticksToWait>>, NoWokenPtr)>>,
   ret |-> (kr.ret = pdTRUE)]

\* QueueBase::sendToFront (part_019:170-173)
QueueBase_sendToFront(this, item, ticksToWait, kr) ==
  [calls |-> <<KCall("xQueueSendToFront", this.handle, <<item, ticksToWait>>, NoWokenPtr)>>,
   ret |-> (kr.ret = pdTRUE)]

\* QueueBase::sendToFrontFromISR(bool&, const T&) (part_019:193-202)
QueueBase_sendToFrontFromISR(this, higherPriorityTaskWoken, item, kr) ==
  LET taskWoken == kr.woken
  IN  [calls |-> <<KCall("xQueueSendToFrontFromISR", this.handle, <<item>>, TaskWokenPtr)>>,
       ret |-> (kr.ret = pdPASS),
       flag |-> IF taskWoken = pdTRUE THEN TRUE ELSE higherPriorityTaskWoken]

\* QueueBase::sendToFrontFromISR(const T&) (part_019:214-216)
QueueBase_sendToFrontFromISR0(this, item, kr) ==
  [calls |-> <<KCall("xQueueSendToFrontFromISR", this.handle, <<item>>, NullWokenPtr)>>,
   ret |-> (kr.ret = pdPASS)]

\* Variant: hands back the buffer whatever the kernel returned.
QueueBase_receive_always(this, ticksToWait, kr) ==
  [calls |-> <<KCall("xQueueReceive", this.handle, <<ticksToWait>>, NoWokenPtr)>>,
   ret |-> Some(kr.out)]

\* QueueBase::receive (part_019:242-248)
QueueBase_receive(this, ticksToWait, kr) ==
  [calls |-> <<KCall("xQueueReceive", this.handle, <<ticksToWait>>, NoWokenPtr)>>,
   ret |-> IF kr.ret = pdTRUE THEN Some(kr.out) ELSE None]

\* QueueBase::receiveFromISR(bool&) (part_019:271-279)
QueueBase_receiveFromISR(this, higherPriorityTaskWoken, kr) ==
  LET taskWoken == kr.woken
  IN  [calls |-> <<KCall("xQueueReceiveFromISR", this.handle, <<>>, TaskWokenPtr)>>,
       ret |-> IF kr.ret = pdTRUE THEN Some(kr.out) ELSE None,
       flag |-> IF taskWoken = pdTRUE THEN TRUE ELSE higherPriorityTaskWoken]

\* QueueBase::receiveFromISR() (part_019:292-297)
QueueBase_receiveFromISR0(this, kr) ==
  [calls |-> <<KCall("xQueueReceiveFromISR", this.handle, <<>>, NullWokenPtr)>>,
   ret |-> IF kr.ret = pdTRUE THEN Some(kr.out) ELSE None]

\* QueueBase::reset (part_019:358-358)
QueueBase_reset(this, kr) ==
  [calls |-> <<KCall("xQueueReset", this.handle, <<>>, NoWokenPtr)>>,
   ret |-> Void]

\* Variant: posts to the back without waiting instead of overwriting.
QueueBase_overwrite_viaSend(this, item, kr) ==
  [calls |-> <<KCall("xQueueSendToBack", this.handle, <<item, 0>>, NoWokenPtr)>>,
   ret |-> Void]

\* QueueBase::overwrite (part_019:382-382)
QueueBase_overwrite(this, item, kr) ==
  [calls |-> <<KCall("xQueueOverwrite", this.handle, <<item>>, NoWokenPtr)>>,
   ret |-> Void]

\* QueueBase::overwriteFromISR(bool&, const T&) (part_019:410-417)
QueueBase_overwriteFromISR(this, higherPriorityTaskWoken, item, kr) ==
  LET taskWoken == kr.woken
  IN  [calls |-> <<KCall("xQueueOverwriteFromISR", this.handle, <<item>>, TaskWokenPtr)>>,
       ret |-> Void,
       flag |-> IF taskWoken = pdTRUE THEN TRUE ELSE higherPriorityTaskWoken]

\* QueueBase::overwriteFromISR(const T&) (part_019:430-432)
QueueBase_overwriteFromISR0(this, item, kr) ==
  [calls |-> <<KCall("xQueueOverwriteFromISR", this.handle, <<item>>, NullWokenPtr)>>,
   ret |-> Void]

\* Variant: forwards to the removing kernel function.
QueueBase_peek_viaReceive(this, ticksToWait, kr) ==
  [calls |-> <<KCall("xQueueReceive", this.handle, <<ticksToWait>>, NoWokenPtr)>>,
   ret |-> IF kr.ret = pdTRUE THEN Some(kr.out) ELSE None]

\* QueueBase::peek (part_019:463-469)
QueueBase_peek(this, ticksToWait, kr) ==
  [calls |-> <<KCall("xQueuePeek", this.handle, <<ticksToWait>>, NoWokenPtr)>>,
   ret |-> IF kr.ret = pdTRUE THEN Some(kr.out) ELSE None]

\* QueueBase::peekFromISR (part_019:490-495)
QueueBase_peekFromISR(this, kr) ==
  [calls |-> <<KCall("xQueuePeekFromISR", this.handle, <<>>, NoWokenPtr)>>,
   ret |-> IF kr.ret = pdTRUE THEN Some(kr.out) ELSE None]

\* QueueBase::messagesWaiting (part_019:311-313)
QueueBase_messagesWaiting(this, kr) ==
  [calls |-> <<KCall("uxQueueMessagesWaiting", this.handle, <<>>, NoWokenPtr)>>,
   ret |-> kr.ret]

\* QueueBase::isFullFromISR (part_019:578-580)
QueueBase_isFullFromISR(this, kr) ==
  [calls |-> <<KCall("xQueueIsQueueFullFromISR", this.handle, <<>>, NoWokenPtr)>>,
   ret |-> (kr.ret = pdTRUE)]

\* QueueBase::isEmptyFromISR (part_019:596-598)
QueueBase_isEmptyFromISR(this, kr) ==
  [calls |-> <<KCall("xQueueIsQueueEmptyFromISR", this.handle, <<>>, NoWokenPtr)>>,
   ret |-> (kr.ret = pdTRUE)]

\* TimerBase::isValid (part_018:90-90)
TimerBase_isValid(this) == this.handle # NULL

\* TimerBase::deleteTimer (part_018:451-457)
TimerBase_deleteTimer(this, blockTime, kr) ==
  [calls |-> <<KCall("xTimerDelete", this.handle, <<blockTime>>, NoWokenPtr)>>,
   this |-> IF kr.ret = pdPASS THEN [this EXCEPT !.handle = NULL] ELSE this,
   ret |-> (kr.ret = pdPASS)]

\* TimerBase::isActive (part_018:116-118)
TimerBase_isActive(this, kr) ==
  [calls |-> <<KCall("xTimerIsTimerActive", this.handle, <<>>, NoWokenPtr)>>,
   ret |-> (kr.ret # pdFALSE)]

\* TimerBase::start (part_018:159-161)
TimerBase_start(this, blockTime, kr) ==
  [calls |-> <<KCall("xTimerStart", this.handle, <<blockTime>>, NoWokenPtr)>>,
   ret |-> (kr.ret = pdPASS)]

\* TimerBase::startFromISR(bool&) (part_018:196-203)
TimerBase_startFromISR(this, higherPriorityTaskWoken, kr) ==
  LET taskWoken == kr.woken
  IN  [calls |-> <<KCall("xTimerStartFromISR", this.handle, <<>>, TaskWokenPtr)>>,
       ret |-> (kr.ret = pdPASS),
       flag |-> IF taskWoken = pdTRUE THEN TRUE ELSE higherPriorityTaskWoken]

\* TimerBase::startFromISR() (part_018:215-217)
TimerBase_startFromISR0(this, kr) ==
  [calls |-> <<KCall("xTimerStartFromISR", this.handle, <<>>, NullWokenPtr)>>,
   ret |-> (kr.ret = pdPASS)]

\* TimerBase::stop (part_018:249-251)
TimerBase_stop(this, blockTime, kr) ==
  [calls |-> <<KCall("xTimerStop", this.handle, <<blockTime>>, NoWokenPtr)>>,
   ret |-> (kr.ret = pdPASS)]

\* TimerBase::stopFromISR(bool&) (part_018:285-292)
TimerBase_stopFromISR(this, higherPriorityTaskWoken, kr) ==
  LET taskWoken == kr.woken
  IN  [calls |-> <<KCall("xTimerStopFromISR", this.handle, <<>>, TaskWokenPtr)>>,
       ret |-> (kr.ret = pdPASS),
       flag |-> IF taskWoken = pdTRUE THEN TRUE ELSE higherPriorityTaskWoken]

\* TimerBase::stopFromISR() (part_018:304-306)
TimerBase_stopFromISR0(this, kr) ==
  [calls |-> <<KCall("xTimerStopFromISR", this.handle, <<>>, NullWokenPtr)>>,
   ret |-> (kr.ret = pdPASS)]

\* TimerBase::changePeriod (part_018:345-348)
TimerBase_changePeriod(this, newPeriod, blockTime, kr) ==
  [calls |-> <<KCall("xTimerChangePeriod", this.handle, <<newPeriod, blockTime>>, NoWokenPtr)>>,
   ret |-> (kr.ret = pdPASS)]

\* TimerBase::changePeriodFromISR(bool&, TickType_t) (part_018:392-401)
TimerBase_changePeriodFromISR(this, higherPriorityTaskWoken, newPeriod, kr) ==
  LET taskWoken == kr.woken
  IN  [calls |-> <<KCall("xTimerChangePeriodFromISR", this.handle, <<newPeriod>>, TaskWokenPtr)>>,
       ret |-> (kr.ret = pdPASS),
       flag |-> IF taskWoken = pdTRUE THEN TRUE ELSE higherPriorityTaskWoken]

\* TimerBase::changePeriodFromISR(TickType_t) (part_018:415-417)
TimerBase_changePeriodFromISR0(this, newPeriod, kr) ==
  [calls |-> <<KCall("xTimerChangePeriodFromISR", this.handle, <<newPeriod>>, NullWokenPtr)>>,
   ret |-> (kr.ret = pdPASS)]

\* TimerBase::reset (part_018:500-502)
TimerBase_reset(this, blockTime, kr) ==
  [calls |-> <<KCall("xTimerReset", this.handle, <<blockTime>>, NoWokenPtr)>>,
   ret |-> (kr.ret = pdPASS)]

\* TimerBase::resetFromISR(bool&) (part_018:537-544)
TimerBase_resetFromISR(this, higherPriorityTaskWoken, kr) ==
  LET taskWoken == kr.woken
  IN  [calls |-> <<KCall("xTimerResetFromISR", this.handle, <<>>, TaskWokenPtr)>>,
       ret |-> (kr.ret = pdPASS),
       flag |-> IF taskWoken = pdTRUE THEN TRUE ELSE higherPriorityTaskWoken]

\* TimerBase::resetFromISR() (part_018:556-558)
TimerBase_resetFromISR0(this, kr) ==
  [calls |-> <<KCall("xTimerResetFromISR", this.handle, <<>>, NullWokenPtr)>>,
   ret |-> (kr.ret = pdPASS)]

\* TimerBase::getReloadMode (part_018:671-673)
TimerBase_getReloadMode(this, kr) ==
  [calls |-> <<KCall("uxTimerGetReloadMode", this.handle, <<>>, NoWokenPtr)>>,
   ret |-> (kr.ret = pdTRUE)]

\* StreamBufferBase::isValid (part_018:1012-1012)
StreamBufferBase_isValid(this) == this.handle # NULL

\* StreamBufferBase::sendFromISR(bool&, ...) (part_018:1095-1103)
StreamBufferBase_sendFromISR(this, higherPriorityTaskWoken, data, length, kr) ==
  LET taskWoken == kr.woken
  IN  [calls |-> <<KCall("xStreamBufferSendFromISR", this.handle, <<data, length>>, TaskWokenPtr)>>,
       ret |-> kr.ret,
       flag |-> IF taskWoken = pdTRUE THEN TRUE ELSE higherPriorityTaskWoken]

\* StreamBufferBase::receiveFromISR(bool&, ...) (part_018:1202-1211)
StreamBufferBase_receiveFromISR(this, higherPriorityTaskWoken, buffer, bufferLength, kr) ==
  LET taskWoken == kr.woken
  IN  [calls |-> <<KCall("xStreamBufferReceiveFromISR", this.handle, <<buffer, bufferLength>>, TaskWokenPtr)>>,
       ret |-> kr.ret,
       flag |-> IF taskWoken = pdTRUE THEN TRUE ELSE higherPriorityTaskWoken]

\* StreamBufferBase::setTriggerLevel (part_018:1293-1295)
StreamBufferBase_setTriggerLevel(this, triggerLevel, kr) ==
  [calls |-> <<KCall("xStreamBufferSetTriggerLevel", this.handle, <<triggerLevel>>, NoWokenPtr)>>,
   ret |-> (kr.ret = pdTRUE)]

\* StreamBufferBase::reset (part_018:1314-1314)
StreamBufferBase_reset(this, kr) ==
  [calls |-> <<KCall("xStreamBufferReset", this.handle, <<>>, NoWokenPtr)>>,
   ret |-> (kr.ret = pdPASS)]

\* StreamBufferBase::isEmpty (part_018:1330-1332)
StreamBufferBase_isEmpty(this, kr) ==
  [calls |-> <<KCall("xStreamBufferIsEmpty", this.handle, <<>>, NoWokenPtr)>>,
   ret |-> (kr.ret = pdTRUE)]

\* StreamBufferBase::isFull (part_018:1348-1348)
StreamBufferBase_isFull(this, kr) ==
  [calls |-> <<KCall("xStreamBufferIsFull", this.handle, <<>>, NoWokenPtr)>>,
   ret |-> (kr.ret = pdTRUE)]

\* MessageBufferBase::isValid (MessageBuffer.hpp:83-83)
MessageBufferBase_isValid(this) == this.handle # NULL

\* MessageBufferBase::sendFromISR(bool&, ...) (MessageBuffer.hpp:178-186)
MessageBufferBase_sendFromISR(this, higherPriorityTaskWoken, data, length, kr) ==
  LET taskWoken == kr.woken
  IN  [calls |-> <<KCall("xMessageBufferSendFromISR", this.handle, <<data, length>>, TaskWokenPtr)>>,
       ret |-> kr.ret,
       flag |-> IF taskWoken = pdTRUE THEN TRUE ELSE higherPriorityTaskWoken]

\* MessageBufferBase::receiveFromISR(bool&, ...) (MessageBuffer.hpp:284-293)
MessageBufferBase_receiveFromISR(this, higherPriorityTaskWoken, buffer, bufferLength, kr) ==
  LET taskWoken == kr.woken
  IN  [calls |-> <<KCall("xMessageBufferReceiveFromISR", this.handle, <<buffer, bufferLength>>, TaskWokenPtr)>>,
       ret |-> kr.ret,
       flag |-> IF taskWoken = pdTRUE THEN TRUE ELSE higherPriorityTaskWoken]

\* MessageBufferBase::reset (MessageBuffer.hpp:351-351)
MessageBufferBase_reset(this, kr) ==
  [calls |-> <<KCall("xMessageBufferReset", this.handle, <<>>, NoWokenPtr)>>,
   ret |-> (kr.ret = pdPASS)]

\* MessageBufferBase::isEmpty (MessageBuffer.hpp:367-369)
MessageBufferBase_isEmpty(this, kr) ==
  [calls |-> <<KCall("xMessageBufferIsEmpty", this.handle, <<>>, NoWokenPtr)>>,
   ret |-> (kr.ret = pdTRUE)]

\* MessageBufferBase::isFull (MessageBuffer.hpp:386-388)
MessageBufferBase_isFull(this, kr) ==
  [calls |-> <<KCall("xMessageBufferIsFull", this.handle, <<>>, NoWokenPtr)>>,
   ret |-> (kr.ret = pdTRUE)]

\* Task::isValid (Task.hpp:1337-1337)
Task_isValid(this) == this.taskCreatedSuccessfully

\* Variant: reports the opposite of the kernel's answer.
TaskBase_delayUntil_negated(this, timeIncrement, kr) ==
  [calls |-> <<KCall("xTaskDelayUntil", NoHandle,
                     <<"&previousWakeTime", timeIncrement>>, NoWokenPtr)>>,
   this |-> [this EXCEPT !.previousWakeTime = kr.out],
   ret |-> (kr.ret # pdTRUE)]

\* TaskBase::delayUntil (Task.hpp:1151-1153)
\* kr.out is what the kernel left in previousWakeTime (passed as
\* &previousWakeTime).
TaskBase_delayUntil(this, timeIncrement, kr) ==
  [calls |-> <<KCall("xTaskDelayUntil", NoHandle,
                     <<"&previousWakeTime", timeIncrement>>, NoWokenPtr)>>,
   this |-> [this EXCEPT !.previousWakeTime = kr.out],
   ret |-> (kr.ret = pdTRUE)]

\* TaskBase::suspend (Task.hpp:181-181)
TaskBase_suspend(this, kr) ==
  [calls |-> <<KCall("vTaskSuspend", this.handle, <<>>, NoWokenPtr)>>,
   ret |-> Void]

\* TaskBase::resume (Task.hpp:202-202)
TaskBase_resume(this, kr) ==
  [calls |-> <<KCall("vTaskResume", this.handle, <<>>, NoWokenPtr)>>,
   ret |-> Void]

\* TaskBase::resumeFromISR (Task.hpp:234-236)
TaskBase_resumeFromISR(this, kr) ==
  [calls |-> <<KCall("xTaskResumeFromISR", this.handle, <<>>, NoWokenPtr)>>,
   ret |-> (kr.ret = pdTRUE)]

\* TaskBase::abortDelay (Task.hpp:268-268)
TaskBase_abortDelay(this, kr) ==
  [calls |-> <<KCall("xTaskAbortDelay", this.handle, <<>>, NoWokenPtr)>>,
   ret |-> (kr.ret = pdPASS)]

\* TaskBase::notifyGiveFromISR(bool&, UBaseType_t) (Task.hpp:497-504)
TaskBase_notifyGiveFromISR(this, higherPriorityTaskWoken, index, kr) ==
  LET taskWoken == kr.woken
  IN  [calls |-> <<KCall("vTaskNotifyGiveIndexedFromISR", this.handle, <<index>>, TaskWokenPtr)>>,
       ret |-> Void,
       flag |-> IF taskWoken = pdTRUE THEN TRUE ELSE higherPriorityTaskWoken]

\* TaskBase::notify (Task.hpp:603-608)
TaskBase_notify(this, action, value, index, kr) ==
  [calls |-> <<KCall("xTaskNotifyIndexed", this.handle, <<index, to_ulong(value), action>>, NoWokenPtr)>>,
   ret |-> (kr.ret = pdPASS)]

\* TaskBase::notifyAndQueryFromISR(bool&, ...) (Task.hpp:748-763)
TaskBase_notifyAndQueryFromISR(this, higherPriorityTaskWoken, action, value, index, kr) ==
  LET taskWoken == kr.woken
  IN  [calls |-> <<KCall("xTaskNotifyAndQueryIndexedFromISR", this.handle, <<index, to_ulong(value), action>>, TaskWokenPtr)>>,
       ret |-> <<(kr.ret = pdPASS), from_ulong(kr.out)>>,
       flag |-> IF taskWoken = pdTRUE THEN TRUE ELSE higherPriorityTaskWoken]

\* TaskBase::notifyFromISR(bool&, ...) (Task.hpp:852-864)
TaskBase_notifyFromISR(this, higherPriorityTaskWoken, action, value, index, kr) ==
  LET taskWoken == kr.woken
  IN  [calls |-> <<KCall("xTaskNotifyIndexedFromISR", this.handle, <<index, to_ulong(value), action>>, TaskWokenPtr)>>,
       ret |-> (kr.ret = pdPASS),
       flag |-> IF taskWoken = pdTRUE THEN TRUE ELSE higherPriorityTaskWoken]

\* TaskBase::notifyFromISR(...) (Task.hpp:877-883)
TaskBase_notifyFromISR0(this, action, value, index, kr) ==
  [calls |-> <<KCall("xTaskNotifyIndexedFromISR", this.handle, <<index, to_ulong(value), action>>, NullWokenPtr)>>,
   ret |-> (kr.ret = pdPASS)]

\* TaskBase::notifyStateClear (Task.hpp:1016-1018)
TaskBase_notifyStateClear(this, index, kr) ==
  [calls |-> <<KCall("xTaskNotifyStateClearIndexed", this.handle, <<index>>, NoWokenPtr)>>,
   ret |-> (kr.ret = pdTRUE)]

\* FreeRTOS::Kernel::suspendAll (Task.hpp:1812-1812)
Kernel_suspendAll(kr) ==
  [calls |-> <<KCall("vTaskSuspendAll", NoHandle, <<>>, NoWokenPtr)>>,
   ret |-> Void]

\* FreeRTOS::Kernel::resumeAll (Task.hpp:1834-1834)
Kernel_resumeAll(kr) ==
  [calls |-> <<KCall("xTaskResumeAll", NoHandle, <<>>, NoWokenPtr)>>,
   ret |-> (kr.ret = pdTRUE)]

\* FreeRTOS::Kernel::catchUpTicks (Task.hpp:1883-1885)
Kernel_catchUpTicks(ticksToCatchUp, kr) ==
  [calls |-> <<KCall("xTaskCatchUpTicks", NoHandle, <<ticksToCatchUp>>, NoWokenPtr)>>,
   ret |-> (kr.ret = pdTRUE)]
(***************************************************************************)
(* Callers: the arguments and contexts methods are invoked with.           *)
(***************************************************************************)
MaxItem == 2
Items == 1 .. MaxItem                 \* values of the queue's item type T
TickArgs == {0, portMAX_DELAY}        \* ticksToWait / blockTime
Periods == {1, 2}
Ptrs == {1, 2}                        \* data / buffer addresses
Lengths == {1, 2}
Indexes == {0, 1}                     \* notification index
NotifyActions == {0, 2, 4}                \* of TaskBase::NotifyAction, Task.hpp:83-89
BitSets == {{}, {1, BitWidth - 1}}

\* The wrapper objects of the call layer: one holds a kernel handle, the
\* kernel also owns an object no wrapper call is made on.
OwnHandle == "h1"
OtherHandle == "h2"
Handles == {OwnHandle, OtherHandle, NoHandle, NULL}

\* BaseType_t values a kernel function returns: pdFALSE, pdTRUE (= pdPASS),
\* and another non-zero value.
KernelResults == {pdFALSE, pdTRUE, 2}

\* Methods called from a task.
TaskMethods ==
  {"SemaphoreBase_take", "SemaphoreBase_give", "SemaphoreBase_isValid",
   "MutexBase_isValid", "MutexBase_lock", "MutexBase_unlock",
   "RecursiveMutexBase_lock", "RecursiveMutexBase_unlock",
   "EventGroupBase_isValid", "QueueBase_isValid", "QueueBase_sendToBack",
   "QueueBase_sendToFront", "QueueBase_receive", "QueueBase_reset",
   "QueueBase_overwrite", "QueueBase_peek", "QueueBase_messagesWaiting",
   "TimerBase_isValid", "TimerBase_deleteTimer", "TimerBase_isActive",
   "TimerBase_start", "TimerBase_stop", "TimerBase_changePeriod",
   "TimerBase_reset", "TimerBase_getReloadMode", "StreamBufferBase_isValid",
   "StreamBufferBase_setTriggerLevel", "StreamBufferBase_reset",
   "StreamBufferBase_isEmpty", "StreamBufferBase_isFull",
   "MessageBufferBase_isValid", "MessageBufferBase_reset",
   "MessageBufferBase_isEmpty", "MessageBufferBase_isFull", "Task_isValid",
   "TaskBase_delayUntil", "TaskBase_suspend", "TaskBase_resume",
   "TaskBase_abortDelay", "TaskBase_notify", "TaskBase_notifyStateClear",
   "Kernel_suspendAll", "Kernel_resumeAll", "Kernel_catchUpTicks"}
\* FromISR methods that take no flag or pass NULL for it.
IsrMethods ==
  {"SemaphoreBase_takeFromISR0", "SemaphoreBase_giveFromISR0",
   "MutexBase_lockFromISR0", "EventGroupBase_setFromISR0",
   "EventGroupBase_clearFromISR", "QueueBase_sendToBackFromISR0",
   "QueueBase_sendToFrontFromISR0", "QueueBase_receiveFromISR0",
   "QueueBase_overwriteFromISR0", "QueueBase_peekFromISR",
   "QueueBase_isFullFromISR", "QueueBase_isEmptyFromISR",
   "TimerBase_startFromISR0", "TimerBase_stopFromISR0",
   "TimerBase_changePeriodFromISR0", "TimerBase_resetFromISR0",
   "TaskBase_resumeFromISR", "TaskBase_notifyFromISR0"}
\* FromISR overloads that take  bool& higherPriorityTaskWoken.
IsrFlagMethods ==
  {"SemaphoreBase_takeFromISR", "SemaphoreBase_giveFromISR",
   "MutexBase_lockFromISR", "EventGroupBase_setFromISR",
   "QueueBase_sendToBackFromISR", "QueueBase_sendToFrontFromISR",
   "QueueBase_receiveFromISR", "QueueBase_overwriteFromISR",
   "TimerBase_startFromISR", "TimerBase_stopFromISR",
   "TimerBase_changePeriodFromISR", "TimerBase_resetFromISR",
   "StreamBufferBase_sendFromISR", "StreamBufferBase_receiveFromISR",
   "MessageBufferBase_sendFromISR", "MessageBufferBase_receiveFromISR",
   "TaskBase_notifyGiveFromISR", "TaskBase_notifyAndQueryFromISR",
   "TaskBase_notifyFromISR"}
\* The classes (and the Kernel namespace) whose methods are called.
CallClasses ==
  {"SemaphoreBase", "MutexBase", "RecursiveMutexBase", "EventGroupBase",
   "QueueBase", "TimerBase", "StreamBufferBase", "MessageBufferBase",
   "TaskBase", "Kernel"}
\* The methods of class c.
MethodsOf(c) ==
  CASE c = "SemaphoreBase" ->
       {"SemaphoreBase_take", "SemaphoreBase_takeFromISR",
        "SemaphoreBase_takeFromISR0", "SemaphoreBase_give",
        "SemaphoreBase_giveFromISR", "SemaphoreBase_giveFromISR0",
        "SemaphoreBase_isValid"}
    [] c = "MutexBase" ->
       {"MutexBase_isValid", "MutexBase_lock", "MutexBase_lockFromISR",
        "MutexBase_lockFromISR0", "MutexBase_unlock"}
    [] c = "RecursiveMutexBase" ->
       {"MutexBase_isValid", "RecursiveMutexBase_lock",
        "RecursiveMutexBase_unlock"}
    [] c = "EventGroupBase" ->
       {"EventGroupBase_isValid", "EventGroupBase_setFromISR",
        "EventGroupBase_setFromISR0", "EventGroupBase_clearFromISR"}
    [] c = "QueueBase" ->
       {"QueueBase_isValid", "QueueBase_sendToBack",
        "QueueBase_sendToBackFromISR", "QueueBase_sendToBackFromISR0",
        "QueueBase_sendToFront", "QueueBase_sendToFrontFromISR",
        "QueueBase_sendToFrontFromISR0", "QueueBase_receive",
        "QueueBase_receiveFromISR", "QueueBase_receiveFromISR0",
        "QueueBase_reset", "QueueBase_overwrite",
        "QueueBase_overwriteFromISR", "QueueBase_overwriteFromISR0",
        "QueueBase_peek", "QueueBase_peekFromISR",
        "QueueBase_messagesWaiting", "QueueBase_isFullFromISR",
        "QueueBase_isEmptyFromISR"}
    [] c = "TimerBase" ->
       {"TimerBase_isValid", "TimerBase_deleteTimer", "TimerBase_isActive",
        "TimerBase_start", "TimerBase_startFromISR",
        "TimerBase_startFromISR0", "TimerBase_stop", "TimerBase_stopFromISR",
        "TimerBase_stopFromISR0", "TimerBase_changePeriod",
        "TimerBase_changePeriodFromISR", "TimerBase_changePeriodFromISR0",
        "TimerBase_reset", "TimerBase_resetFromISR",
        "TimerBase_resetFromISR0", "TimerBase_getReloadMode"}
    [] c = "StreamBufferBase" ->
       {"StreamBufferBase_isValid", "StreamBufferBase_sendFromISR",
        "StreamBufferBase_receiveFromISR", "StreamBufferBase_setTriggerLevel",
        "StreamBufferBase_reset", "StreamBufferBase_isEmpty",
        "StreamBufferBase_isFull"}
    [] c = "MessageBufferBase" ->
       {"MessageBufferBase_isValid", "MessageBufferBase_sendFromISR",
        "MessageBufferBase_receiveFromISR", "MessageBufferBase_reset",
        "MessageBufferBase_isEmpty", "MessageBufferBase_isFull"}
    [] c = "TaskBase" ->
       {"Task_isValid", "TaskBase_delayUntil", "TaskBase_suspend",
        "TaskBase_resume", "TaskBase_resumeFromISR", "TaskBase_abortDelay",
        "TaskBase_notifyGiveFromISR", "TaskBase_notify",
        "TaskBase_notifyAndQueryFromISR", "TaskBase_notifyFromISR",
        "TaskBase_notifyFromISR0", "TaskBase_notifyStateClear"}
    [] c = "Kernel" ->
       {"Kernel_suspendAll", "Kernel_resumeAll", "Kernel_catchUpTicks"}
    [] OTHER -> {}

\* Methods whose last argument is a block time: the kernel may hold the caller.
WaitingMethods ==
  {"SemaphoreBase_take", "MutexBase_lock", "RecursiveMutexBase_lock",
   "QueueBase_sendToBack", "QueueBase_sendToFront", "QueueBase_receive",
   "QueueBase_peek", "TimerBase_deleteTimer", "TimerBase_start",
   "TimerBase_stop", "TimerBase_changePeriod", "TimerBase_reset"}
\* Methods declared to return bool.
BoolMethods ==
  {"SemaphoreBase_take", "SemaphoreBase_takeFromISR",
   "SemaphoreBase_takeFromISR0", "SemaphoreBase_give",
   "SemaphoreBase_giveFromISR", "SemaphoreBase_giveFromISR0",
   "SemaphoreBase_isValid", "MutexBase_isValid", "MutexBase_lock",
   "MutexBase_lockFromISR", "MutexBase_lockFromISR0", "MutexBase_unlock",
   "RecursiveMutexBase_lock", "RecursiveMutexBase_unlock",
   "EventGroupBase_isValid", "EventGroupBase_setFromISR",
   "EventGroupBase_setFromISR0", "EventGroupBase_clearFromISR",
   "QueueBase_isValid", "QueueBase_sendToBack", "QueueBase_sendToBackFromISR",
   "QueueBase_sendToBackFromISR0", "QueueBase_sendToFront",
   "QueueBase_sendToFrontFromISR", "QueueBase_sendToFrontFromISR0",
   "QueueBase_isFullFromISR", "QueueBase_isEmptyFromISR", "TimerBase_isValid",
   "TimerBase_deleteTimer", "TimerBase_isActive", "TimerBase_start",
   "TimerBase_startFromISR", "TimerBase_startFromISR0", "TimerBase_stop",
   "TimerBase_stopFromISR", "TimerBase_stopFromISR0",
   "TimerBase_changePeriod", "TimerBase_changePeriodFromISR",
   "TimerBase_changePeriodFromISR0", "TimerBase_reset",
   "TimerBase_resetFromISR", "TimerBase_resetFromISR0",
   "TimerBase_getReloadMode", "StreamBufferBase_isValid",
   "StreamBufferBase_setTriggerLevel", "StreamBufferBase_reset",
   "StreamBufferBase_isEmpty", "StreamBufferBase_isFull",
   "MessageBufferBase_isValid", "MessageBufferBase_reset",
   "MessageBufferBase_isEmpty", "MessageBufferBase_isFull", "Task_isValid",
   "TaskBase_delayUntil", "TaskBase_resumeFromISR", "TaskBase_abortDelay",
   "TaskBase_notify", "TaskBase_notifyFromISR", "TaskBase_notifyFromISR0",
   "TaskBase_notifyStateClear", "Kernel_resumeAll", "Kernel_catchUpTicks"}
\* isValid(): answered from the object's own fields.
ValidMethods ==
  {"SemaphoreBase_isValid", "MutexBase_isValid", "EventGroupBase_isValid",
   "QueueBase_isValid", "TimerBase_isValid", "StreamBufferBase_isValid",
   "MessageBufferBase_isValid", "Task_isValid"}
\* Methods that are not const: they change the object's fields.
MutatingMethods ==
  {"TimerBase_deleteTimer", "TaskBase_delayUntil"}
\* Methods whose kernel function takes no handle.
NoHandleMethods ==
  {"TaskBase_delayUntil", "Kernel_suspendAll", "Kernel_resumeAll",
   "Kernel_catchUpTicks"}

\* The arguments a caller may pass to method m.
ArgsOf(m) ==
  CASE m \in
       {"SemaphoreBase_take", "MutexBase_lock", "RecursiveMutexBase_lock",
        "QueueBase_receive", "QueueBase_peek", "TimerBase_deleteTimer",
        "TimerBase_start", "TimerBase_stop", "TimerBase_reset"}
       -> {<<x>> : x \in TickArgs}
    [] m \in
       {"SemaphoreBase_takeFromISR", "SemaphoreBase_takeFromISR0",
        "SemaphoreBase_give", "SemaphoreBase_giveFromISR",
        "SemaphoreBase_giveFromISR0", "SemaphoreBase_isValid",
        "MutexBase_isValid", "MutexBase_lockFromISR",
        "MutexBase_lockFromISR0", "MutexBase_unlock",
        "RecursiveMutexBase_unlock", "EventGroupBase_isValid",
        "QueueBase_isValid", "QueueBase_receiveFromISR",
        "QueueBase_receiveFromISR0", "QueueBase_reset",
        "QueueBase_peekFromISR", "QueueBase_messagesWaiting",
        "QueueBase_isFullFromISR", "QueueBase_isEmptyFromISR",
        "TimerBase_isValid", "TimerBase_isActive", "TimerBase_startFromISR",
        "TimerBase_startFromISR0", "TimerBase_stopFromISR",
        "TimerBase_stopFromISR0", "TimerBase_resetFromISR",
        "TimerBase_resetFromISR0", "TimerBase_getReloadMode",
        "StreamBufferBase_isValid", "StreamBufferBase_reset",
        "StreamBufferBase_isEmpty", "StreamBufferBase_isFull",
        "MessageBufferBase_isValid", "MessageBufferBase_reset",
        "MessageBufferBase_isEmpty", "MessageBufferBase_isFull",
        "Task_isValid", "TaskBase_suspend", "TaskBase_resume",
        "TaskBase_resumeFromISR", "TaskBase_abortDelay", "Kernel_suspendAll",
        "Kernel_resumeAll"}
       -> {<<>>}
    [] m \in
       {"EventGroupBase_setFromISR", "EventGroupBase_setFromISR0",
        "EventGroupBase_clearFromISR"}
       -> {<<x>> : x \in BitSets}
    [] m \in
       {"QueueBase_sendToBack", "QueueBase_sendToFront"}
       -> Items \X TickArgs
    [] m \in
       {"QueueBase_sendToBackFromISR", "QueueBase_sendToBackFromISR0",
        "QueueBase_sendToFrontFromISR", "QueueBase_sendToFrontFromISR0",
        "QueueBase_overwrite", "QueueBase_overwriteFromISR",
        "QueueBase_overwriteFromISR0"}
       -> {<<x>> : x \in Items}
    [] m \in
       {"TimerBase_changePeriod"}
       -> Periods \X TickArgs
    [] m \in
       {"TimerBase_changePeriodFromISR", "TimerBase_changePeriodFromISR0",
        "TaskBase_delayUntil", "Kernel_catchUpTicks"}
       -> {<<x>> : x \in Periods}
    [] m \in
       {"StreamBufferBase_sendFromISR", "StreamBufferBase_receiveFromISR",
        "MessageBufferBase_sendFromISR", "MessageBufferBase_receiveFromISR"}
       -> Ptrs \X Lengths
    [] m \in
       {"StreamBufferBase_setTriggerLevel"}
       -> {<<x>> : x \in Lengths}
    [] m \in
       {"TaskBase_notifyGiveFromISR", "TaskBase_notifyStateClear"}
       -> {<<x>> : x \in Indexes}
    [] m \in
       {"TaskBase_notify", "TaskBase_notifyAndQueryFromISR",
        "TaskBase_notifyFromISR", "TaskBase_notifyFromISR0"}
       -> NotifyActions \X BitSets \X Indexes

\* The kernel's possible answers to method m's call.
AnswersOf(m) ==
  [ret : IF m \in
       {"QueueBase_messagesWaiting", "StreamBufferBase_sendFromISR",
        "StreamBufferBase_receiveFromISR", "MessageBufferBase_sendFromISR",
        "MessageBufferBase_receiveFromISR"}
       THEN Lengths \cup {0}
         ELSE IF m \in ValidMethods THEN {pdFALSE} ELSE KernelResults,
   woken : IF m \in IsrFlagMethods THEN {pdFALSE, pdTRUE} ELSE {pdFALSE},
   out : IF m \in
       {"QueueBase_receive", "QueueBase_receiveFromISR",
        "QueueBase_receiveFromISR0", "QueueBase_peek",
        "QueueBase_peekFromISR", "TaskBase_delayUntil",
        "TaskBase_notifyAndQueryFromISR"}
       THEN Items ELSE {0}]

\* A caller invoking method m of object this with arguments a.
InvokeFromTask(m, this, a, kr) ==
  CASE m = "SemaphoreBase_take" -> SemaphoreBase_take(this, a[1], kr)
    [] m = "SemaphoreBase_give" -> SemaphoreBase_give(this, kr)
    [] m = "SemaphoreBase_isValid" -> [calls |-> <<>>, ret |-> SemaphoreBase_isValid(this)]
    [] m = "MutexBase_isValid" -> [calls |-> <<>>, ret |-> MutexBase_isValid(this)]
    [] m = "MutexBase_lock" -> MutexBase_lock(this, a[1], kr)
    [] m = "MutexBase_unlock" -> MutexBase_unlock(this, kr)
    [] m = "RecursiveMutexBase_lock" -> RecursiveMutexBase_lock(this, a[1], kr)
    [] m = "RecursiveMutexBase_unlock" -> RecursiveMutexBase_unlock(this, kr)
    [] m = "EventGroupBase_isValid" -> [calls |-> <<>>, ret |-> EventGroupBase_isValid(this)]
    [] m = "QueueBase_isValid" -> [calls |-> <<>>, ret |-> QueueBase_isValid(this)]
    [] m = "QueueBase_sendToBack" -> QueueBase_sendToBack(this, a[1], a[2], kr)
    [] m = "QueueBase_sendToFront" -> QueueBase_sendToFront(this, a[1], a[2], kr)
    [] m = "QueueBase_receive" -> QueueBase_receive(this, a[1], kr)
    [] m = "QueueBase_reset" -> QueueBase_reset(this, kr)
    [] m = "QueueBase_overwrite" -> QueueBase_overwrite(this, a[1], kr)
    [] m = "QueueBase_peek" -> QueueBase_peek(this, a[1], kr)
    [] m = "QueueBase_messagesWaiting" -> QueueBase_messagesWaiting(this, kr)
    [] m = "TimerBase_isValid" -> [calls |-> <<>>, ret |-> TimerBase_isValid(this)]
    [] m = "TimerBase_deleteTimer" -> TimerBase_deleteTimer(this, a[1], kr)
    [] m = "TimerBase_isActive" -> TimerBase_isActive(this, kr)
    [] m = "TimerBase_start" -> TimerBase_start(this, a[1], kr)
    [] m = "TimerBase_stop" -> TimerBase_stop(this, a[1], kr)
    [] m = "TimerBase_changePeriod" -> TimerBase_changePeriod(this, a[1], a[2], kr)
    [] m = "TimerBase_reset" -> TimerBase_reset(this, a[1], kr)
    [] m = "TimerBase_getReloadMode" -> TimerBase_getReloadMode(this, kr)
    [] m = "StreamBufferBase_isValid" -> [calls |-> <<>>, ret |-> StreamBufferBase_isValid(this)]
    [] m = "StreamBufferBase_setTriggerLevel" -> StreamBufferBase_setTriggerLevel(this, a[1], kr)
    [] m = "StreamBufferBase_reset" -> StreamBufferBase_reset(this, kr)
    [] m = "StreamBufferBase_isEmpty" -> StreamBufferBase_isEmpty(this, kr)
    [] m = "StreamBufferBase_isFull" -> StreamBufferBase_isFull(this, kr)
    [] m = "MessageBufferBase_isValid" -> [calls |-> <<>>, ret |-> MessageBufferBase_isValid(this)]
    [] m = "MessageBufferBase_reset" -> MessageBufferBase_reset(this, kr)
    [] m = "MessageBufferBase_isEmpty" -> MessageBufferBase_isEmpty(this, kr)
    [] m = "MessageBufferBase_isFull" -> MessageBufferBase_isFull(this, kr)
    [] m = "Task_isValid" -> [calls |-> <<>>, ret |-> Task_isValid(this)]
    [] m = "TaskBase_delayUntil" -> TaskBase_delayUntil(this, a[1], kr)
    [] m = "TaskBase_suspend" -> TaskBase_suspend(this, kr)
    [] m = "TaskBase_resume" -> TaskBase_resume(this, kr)
    [] m = "TaskBase_abortDelay" -> TaskBase_abortDelay(this, kr)
    [] m = "TaskBase_notify" -> TaskBase_notify(this, a[1], a[2], a[3], kr)
    [] m = "TaskBase_notifyStateClear" -> TaskBase_notifyStateClear(this, a[1], kr)
    [] m = "Kernel_suspendAll" -> Kernel_suspendAll(kr)
    [] m = "Kernel_resumeAll" -> Kernel_resumeAll(kr)
    [] m = "Kernel_catchUpTicks" -> Kernel_catchUpTicks(a[1], kr)

\* A caller invoking method m of object this with arguments a.
InvokeFromISR(m, this, a, kr) ==
  CASE m = "SemaphoreBase_takeFromISR0" -> SemaphoreBase_takeFromISR0(this, kr)
    [] m = "SemaphoreBase_giveFromISR0" -> SemaphoreBase_giveFromISR0(this, kr)
    [] m = "MutexBase_lockFromISR0" -> MutexBase_lockFromISR0(this, kr)
    [] m = "EventGroupBase_setFromISR0" -> EventGroupBase_setFromISR0(this, a[1], kr)
    [] m = "EventGroupBase_clearFromISR" -> EventGroupBase_clearFromISR(this, a[1], kr)
    [] m = "QueueBase_sendToBackFromISR0" -> QueueBase_sendToBackFromISR0(this, a[1], kr)
    [] m = "QueueBase_sendToFrontFromISR0" -> QueueBase_sendToFrontFromISR0(this, a[1], kr)
    [] m = "QueueBase_receiveFromISR0" -> QueueBase_receiveFromISR0(this, kr)
    [] m = "QueueBase_overwriteFromISR0" -> QueueBase_overwriteFromISR0(this, a[1], kr)
    [] m = "QueueBase_peekFromISR" -> QueueBase_peekFromISR(this, kr)
    [] m = "QueueBase_isFullFromISR" -> QueueBase_isFullFromISR(this, kr)
    [] m = "QueueBase_isEmptyFromISR" -> QueueBase_isEmptyFromISR(this, kr)
    [] m = "TimerBase_startFromISR0" -> TimerBase_startFromISR0(this, kr)
    [] m = "TimerBase_stopFromISR0" -> TimerBase_stopFromISR0(this, kr)
    [] m = "TimerBase_changePeriodFromISR0" -> TimerBase_changePeriodFromISR0(this, a[1], kr)
    [] m = "TimerBase_resetFromISR0" -> TimerBase_resetFromISR0(this, kr)
    [] m = "TaskBase_resumeFromISR" -> TaskBase_resumeFromISR(this, kr)
    [] m = "TaskBase_notifyFromISR0" -> TaskBase_notifyFromISR0(this, a[1], a[2], a[3], kr)

\* A caller invoking method m of object this with arguments a.
InvokeFromISRFlag(m, this, f, a, kr) ==
  CASE m = "SemaphoreBase_takeFromISR" -> SemaphoreBase_takeFromISR(this, f, kr)
    [] m = "SemaphoreBase_giveFromISR" -> SemaphoreBase_giveFromISR(this, f, kr)
    [] m = "MutexBase_lockFromISR" -> MutexBase_lockFromISR(this, f, kr)
    [] m = "EventGroupBase_setFromISR" -> EventGroupBase_setFromISR(this, f, a[1], kr)
    [] m = "QueueBase_sendToBackFromISR" -> QueueBase_sendToBackFromISR(this, f, a[1], kr)
    [] m = "QueueBase_sendToFrontFromISR" -> QueueBase_sendToFrontFromISR(this, f, a[1], kr)
    [] m = "QueueBase_receiveFromISR" -> QueueBase_receiveFromISR(this, f, kr)
    [] m = "QueueBase_overwriteFromISR" -> QueueBase_overwriteFromISR(this, f, a[1], kr)
    [] m = "TimerBase_startFromISR" -> TimerBase_startFromISR(this, f, kr)
    [] m = "TimerBase_stopFromISR" -> TimerBase_stopFromISR(this, f, kr)
    [] m = "TimerBase_changePeriodFromISR" -> TimerBase_changePeriodFromISR(this, f, a[1], kr)
    [] m = "TimerBase_resetFromISR" -> TimerBase_resetFromISR(this, f, kr)
    [] m = "StreamBufferBase_sendFromISR" -> StreamBufferBase_sendFromISR(this, f, a[1], a[2], kr)
    [] m = "StreamBufferBase_receiveFromISR" -> StreamBufferBase_receiveFromISR(this, f, a[1], a[2], kr)
    [] m = "MessageBufferBase_sendFromISR" -> MessageBufferBase_sendFromISR(this, f, a[1], a[2], kr)
    [] m = "MessageBufferBase_receiveFromISR" -> MessageBufferBase_receiveFromISR(this, f, a[1], a[2], kr)
    [] m = "TaskBase_notifyGiveFromISR" -> TaskBase_notifyGiveFromISR(this, f, a[1], kr)
    [] m = "TaskBase_notifyAndQueryFromISR" -> TaskBase_notifyAndQueryFromISR(this, f, a[1], a[2], a[3], kr)
    [] m = "TaskBase_notifyFromISR" -> TaskBase_notifyFromISR(this, f, a[1], a[2], a[3], kr)
(***************************************************************************)
(* Call layer: a task or an ISR invokes a wrapper method; the kernel       *)
(* applies the calls the wrapper makes.  The kernel's answer is an input.  *)
(***************************************************************************)
Fresh(h) == KCall("created", h, <<>>, NoWokenPtr)

\* The kernel object a call is applied to ends in a state that is a function
\* of that call; every other object is untouched.
KApply(k, c) == [k EXCEPT ![c.handle] = c]

RECURSIVE KApplyAll(_, _)
KApplyAll(k, cs) ==
  IF cs = <<>> THEN k ELSE KApplyAll(KApply(k, Head(cs)), Tail(cs))

\* The value a completed call returned; no call has returned.
Returned(v) == <<v>>
NotReturned == <<>>

NoCall == [kind |-> "none", m |-> "none", this |-> [handle |-> NULL],
           args |-> <<>>, kr |-> NoAnswer,
           calls |-> <<>>, ret |-> NotReturned, flagBefore |-> FALSE]

\* No task call is waiting inside the kernel.
NoHeld == [m |-> "none", this |-> [handle |-> NULL], args |-> <<>>, calls |-> <<>>]

\* A wrapper object whose constructor stored the handle of the kernel object
\* it created.
Object == [handle |-> OwnHandle]

\* The object of class c after its constructor: the handle is the created
\* kernel object's, or NULL where the kernel could not create one.  The
\* functions of namespace FreeRTOS::Kernel have no object.
ObjectOf(c, created) ==
  LET h == IF created THEN OwnHandle ELSE NULL
  IN  CASE c = "TaskBase" ->
             [handle |-> h, previousWakeTime |-> 0,
              taskCreatedSuccessfully |-> created]
        [] c = "TimerBase" -> [handle |-> h, deleteBlockTime |-> 0]
        [] c = "Kernel" -> [handle |-> NoHandle]
        [] OTHER -> [handle |-> h]

\* The call layer before any call on an object of class c.
CallStart(c, created) ==
  /\ ocls = c
  /\ obj = ObjectOf(c, created)
  /\ last = NoCall
  /\ held = NoHeld
  /\ kobj = [h \in Handles |-> Fresh(h)]
  /\ inIsr = FALSE
  /\ flag = FALSE
  /\ flagInit = FALSE
  /\ anyWoken = FALSE

\* The call layer when no object is under call.
CallIdle == CallStart("none", TRUE)

\* The kernel may hold the caller of method m: a call with a block time, a
\* task suspending itself, a task delaying itself.
MayBlock(m, a) ==
  \/ m \in WaitingMethods /\ a[Len(a)] > 0
  \/ m = "TaskBase_suspend"
  \/ m = "TaskBase_delayUntil" /\ a[1] > 0

\* The object after method m has run with result w.
ThisAfter(m, this, w) == IF m \in MutatingMethods THEN w.this ELSE this

\* A task calls a method and the kernel answers without making it wait.
CallFromTask(m, a, kr) ==
  /\ ~inIsr
  /\ last.kind = "none"
  /\ held = NoHeld
  /\ LET w == InvokeFromTask(m, obj, a, kr)
     IN  /\ last' = [kind |-> "task", m |-> m, this |-> obj, args |-> a,
                     kr |-> kr, calls |-> w.calls, ret |-> Returned(w.ret),
                     flagBefore |-> FALSE]
         /\ kobj' = KApplyAll(kobj, w.calls)
         /\ obj' = ThisAfter(m, obj, w)
  /\ UNCHANGED <<ocls, held, inIsr, flag, flagInit, anyWoken>>
  /\ UNCHANGED exceptCall

\* A task calls a method and the kernel holds it: the method has made its
\* kernel call and has not returned (examples/Semaphore/giveFromISR.cpp:
\* the task waits in take(); examples/Task/resumeFromISR.cpp: the task has
\* suspended itself).
CallWaits(m, a) ==
  /\ ~inIsr
  /\ last.kind = "none"
  /\ held = NoHeld
  /\ MayBlock(m, a)
  /\ LET w == InvokeFromTask(m, obj, a, NoAnswer)
     IN  /\ held' = [m |-> m, this |-> obj, args |-> a, calls |-> w.calls]
         /\ kobj' = KApplyAll(kobj, w.calls)
  /\ UNCHANGED <<ocls, obj, last, inIsr, flag, flagInit, anyWoken>>
  /\ UNCHANGED exceptCall

\* The kernel releases the held task with its answer (the event arrived,
\* the block time ran out, the task was resumed) and the method returns.
CallWakes(kr) ==
  /\ ~inIsr
  /\ last.kind = "none"
  /\ held # NoHeld
  /\ LET w == InvokeFromTask(held.m, held.this, held.args, kr)
     IN  /\ last' = [kind |-> "task", m |-> held.m, this |-> held.this,
                     args |-> held.args, kr |-> kr, calls |-> w.calls,
                     ret |-> Returned(w.ret), flagBefore |-> FALSE]
         /\ obj' = ThisAfter(held.m, held.this, w)
  /\ held' = NoHeld
  /\ UNCHANGED <<ocls, kobj, inIsr, flag, flagInit, anyWoken>>
  /\ UNCHANGED exceptCall

\* An interrupt handler starts:  bool higherPriorityTaskWoken = f0;
IsrEnter(f0) ==
  /\ ~inIsr
  /\ last.kind = "none"
  /\ inIsr' = TRUE
  /\ flag' = f0
  /\ flagInit' = f0
  /\ anyWoken' = FALSE
  /\ UNCHANGED <<ocls, obj, last, held, kobj>>
  /\ UNCHANGED exceptCall

\* The handler calls a FromISR method that takes no flag.
CallFromISR(m, a, kr) ==
  /\ inIsr
  /\ last.kind = "none"
  /\ LET w == InvokeFromISR(m, obj, a, kr)
     IN  /\ last' = [kind |-> "isr", m |-> m, this |-> obj, args |-> a,
                     kr |-> kr, calls |-> w.calls, ret |-> Returned(w.ret),
                     flagBefore |-> flag]
         /\ kobj' = KApplyAll(kobj, w.calls)
  /\ UNCHANGED <<ocls, obj, held, inIsr, flag, flagInit, anyWoken>>
  /\ UNCHANGED exceptCall

\* The handler calls a FromISR overload with its flag.
CallFromISRFlag(m, a, kr) ==
  /\ inIsr
  /\ last.kind = "none"
  /\ LET w == InvokeFromISRFlag(m, obj, flag, a, kr)
     IN  /\ last' = [kind |-> "isrflag", m |-> m, this |-> obj, args |-> a,
                     kr |-> kr, calls |-> w.calls, ret |-> Returned(w.ret),
                     flagBefore |-> flag]
         /\ kobj' = KApplyAll(kobj, w.calls)
         /\ flag' = w.flag
  /\ anyWoken' = (anyWoken \/ kr.woken = pdTRUE)
  /\ UNCHANGED <<ocls, obj, held, inIsr, flagInit>>
  /\ UNCHANGED exceptCall

\* The handler returns (after  if (higherPriorityTaskWoken) yield();).
IsrExit ==
  /\ inIsr
  /\ last.kind = "none"
  /\ inIsr' = FALSE
  /\ flag' = FALSE
  /\ flagInit' = FALSE
  /\ anyWoken' = FALSE
  /\ UNCHANGED <<ocls, obj, last, held, kobj>>
  /\ UNCHANGED exceptCall

\* The caller has used the method's result and goes on.
Return ==
  /\ last.kind # "none"
  /\ last' = NoCall
  /\ UNCHANGED <<ocls, obj, held, kobj, inIsr, flag, flagInit, anyWoken>>
  /\ UNCHANGED exceptCall

NextCall ==
  \/ \E m \in TaskMethods \cap MethodsOf(ocls) :
       \E a \in ArgsOf(m) : \E kr \in AnswersOf(m) : CallFromTask(m, a, kr)
  \/ \E m \in TaskMethods \cap MethodsOf(ocls) :
       \E a \in ArgsOf(m) : CallWaits(m, a)
  \/ \E kr \in AnswersOf(held.m) : CallWakes(kr)
  \/ \E f0 \in BOOLEAN : IsrEnter(f0)
  \/ \E m \in IsrMethods \cap MethodsOf(ocls) :
       \E a \in ArgsOf(m) : \E kr \in AnswersOf(m) : CallFromISR(m, a, kr)
  \/ \E m \in IsrFlagMethods \cap MethodsOf(ocls) :
       \E a \in ArgsOf(m) : \E kr \in AnswersOf(m) : CallFromISRFlag(m, a, kr)
  \/ IsrExit
  \/ Return

\* The kernel function each method's documentation names (@brief Function that
\* calls <tt>...</tt>), with the handle and the arguments in the kernel's order.
DocumentedFn(m) ==
  CASE m \in
       {"SemaphoreBase_take", "MutexBase_lock"}
       -> "xSemaphoreTake"
    [] m \in
       {"SemaphoreBase_takeFromISR", "SemaphoreBase_takeFromISR0",
        "MutexBase_lockFromISR", "MutexBase_lockFromISR0"}
       -> "xSemaphoreTakeFromISR"
    [] m \in
       {"SemaphoreBase_give", "MutexBase_unlock"}
       -> "xSemaphoreGive"
    [] m \in
       {"SemaphoreBase_giveFromISR", "SemaphoreBase_giveFromISR0"}
       -> "xSemaphoreGiveFromISR"
    [] m \in
       {"RecursiveMutexBase_lock"}
       -> "xSemaphoreTakeRecursive"
    [] m \in
       {"RecursiveMutexBase_unlock"}
       -> "xSemaphoreGiveRecursive"
    [] m \in
       {"EventGroupBase_setFromISR", "EventGroupBase_setFromISR0"}
       -> "xEventGroupSetBitsFromISR"
    [] m \in
       {"EventGroupBase_clearFromISR"}
       -> "xEventGroupClearBitsFromISR"
    [] m \in
       {"QueueBase_sendToBack"}
       -> "xQueueSendToBack"
    [] m \in
       {"QueueBase_sendToBackFromISR", "QueueBase_sendToBackFromISR0"}
       -> "xQueueSendToBackFromISR"
    [] m \in
       {"QueueBase_sendToFront"}
       -> "xQueueSendToFront"
    [] m \in
       {"QueueBase_sendToFrontFromISR", "QueueBase_sendToFrontFromISR0"}
       -> "xQueueSendToFrontFromISR"
    [] m \in
       {"QueueBase_receive"}
       -> "xQueueReceive"
    [] m \in
       {"QueueBase_receiveFromISR", "QueueBase_receiveFromISR0"}
       -> "xQueueReceiveFromISR"
    [] m \in
       {"QueueBase_reset"}
       -> "xQueueReset"
    [] m \in
       {"QueueBase_overwrite"}
       -> "xQueueOverwrite"
    [] m \in
       {"QueueBase_overwriteFromISR", "QueueBase_overwriteFromISR0"}
       -> "xQueueOverwriteFromISR"
    [] m \in
       {"QueueBase_peek"}
       -> "xQueuePeek"
    [] m \in
       {"QueueBase_peekFromISR"}
       -> "xQueuePeekFromISR"
    [] m \in
       {"QueueBase_messagesWaiting"}
       -> "uxQueueMessagesWaiting"
    [] m \in
       {"QueueBase_isFullFromISR"}
       -> "xQueueIsQueueFullFromISR"
    [] m \in
       {"QueueBase_isEmptyFromISR"}
       -> "xQueueIsQueueEmptyFromISR"
    [] m \in
       {"TimerBase_deleteTimer"}
       -> "xTimerDelete"
    [] m \in
       {"TimerBase_isActive"}
       -> "xTimerIsTimerActive"
    [] m \in
       {"TimerBase_start"}
       -> "xTimerStart"
    [] m \in
       {"TimerBase_startFromISR", "TimerBase_startFromISR0"}
       -> "xTimerStartFromISR"
    [] m \in
       {"TimerBase_stop"}
       -> "xTimerStop"
    [] m \in
       {"TimerBase_stopFromISR", "TimerBase_stopFromISR0"}
       -> "xTimerStopFromISR"
    [] m \in
       {"TimerBase_changePeriod"}
       -> "xTimerChangePeriod"
    [] m \in
       {"TimerBase_changePeriodFromISR", "TimerBase_changePeriodFromISR0"}
       -> "xTimerChangePeriodFromISR"
    [] m \in
       {"TimerBase_reset"}
       -> "xTimerReset"
    [] m \in
       {"TimerBase_resetFromISR", "TimerBase_resetFromISR0"}
       -> "xTimerResetFromISR"
    [] m \in
       {"TimerBase_getReloadMode"}
       -> "uxTimerGetReloadMode"
    [] m \in
       {"StreamBufferBase_sendFromISR"}
       -> "xStreamBufferSendFromISR"
    [] m \in
       {"StreamBufferBase_receiveFromISR"}
       -> "xStreamBufferReceiveFromISR"
    [] m \in
       {"StreamBufferBase_setTriggerLevel"}
       -> "xStreamBufferSetTriggerLevel"
    [] m \in
       {"StreamBufferBase_reset"}
       -> "xStreamBufferReset"
    [] m \in
       {"StreamBufferBase_isEmpty"}
       -> "xStreamBufferIsEmpty"
    [] m \in
       {"StreamBufferBase_isFull"}
       -> "xStreamBufferIsFull"
    [] m \in
       {"MessageBufferBase_sendFromISR"}
       -> "xMessageBufferSendFromISR"
    [] m \in
       {"MessageBufferBase_receiveFromISR"}
       -> "xMessageBufferReceiveFromISR"
    [] m \in
       {"MessageBufferBase_reset"}
       -> "xMessageBufferReset"
    [] m \in
       {"MessageBufferBase_isEmpty"}
       -> "xMessageBufferIsEmpty"
    [] m \in
       {"MessageBufferBase_isFull"}
       -> "xMessageBufferIsFull"
    [] m \in
       {"TaskBase_delayUntil"}
       -> "xTaskDelayUntil"
    [] m \in
       {"TaskBase_suspend"}
       -> "vTaskSuspend"
    [] m \in
       {"TaskBase_resume"}
       -> "vTaskResume"
    [] m \in
       {"TaskBase_resumeFromISR"}
       -> "xTaskResumeFromISR"
    [] m \in
       {"TaskBase_abortDelay"}
       -> "xTaskAbortDelay"
    [] m \in
       {"TaskBase_notifyGiveFromISR"}
       -> "vTaskNotifyGiveIndexedFromISR"
    [] m \in
       {"TaskBase_notify"}
       -> "xTaskNotifyIndexed"
    [] m \in
       {"TaskBase_notifyAndQueryFromISR"}
       -> "xTaskNotifyAndQueryIndexedFromISR"
    [] m \in
       {"TaskBase_notifyFromISR", "TaskBase_notifyFromISR0"}
       -> "xTaskNotifyIndexedFromISR"
    [] m \in
       {"TaskBase_notifyStateClear"}
       -> "xTaskNotifyStateClearIndexed"
    [] m \in
       {"Kernel_suspendAll"}
       -> "vTaskSuspendAll"
    [] m \in
       {"Kernel_resumeAll"}
       -> "xTaskResumeAll"
    [] m \in
       {"Kernel_catchUpTicks"}
       -> "xTaskCatchUpTicks"

DocumentedArgs(m, a) ==
  CASE m \in
       {"SemaphoreBase_take", "MutexBase_lock", "RecursiveMutexBase_lock",
        "QueueBase_sendToBackFromISR", "QueueBase_sendToBackFromISR0",
        "QueueBase_sendToFrontFromISR", "QueueBase_sendToFrontFromISR0",
        "QueueBase_receive", "QueueBase_overwrite",
        "QueueBase_overwriteFromISR", "QueueBase_overwriteFromISR0",
        "QueueBase_peek", "TimerBase_deleteTimer", "TimerBase_start",
        "TimerBase_stop", "TimerBase_changePeriodFromISR",
        "TimerBase_changePeriodFromISR0", "TimerBase_reset",
        "StreamBufferBase_setTriggerLevel", "TaskBase_notifyGiveFromISR",
        "TaskBase_notifyStateClear", "Kernel_catchUpTicks"}
       -> <<a[1]>>
    [] m \in
       {"SemaphoreBase_takeFromISR", "SemaphoreBase_takeFromISR0",
        "SemaphoreBase_give", "SemaphoreBase_giveFromISR",
        "SemaphoreBase_giveFromISR0", "MutexBase_lockFromISR",
        "MutexBase_lockFromISR0", "MutexBase_unlock",
        "RecursiveMutexBase_unlock", "QueueBase_receiveFromISR",
        "QueueBase_receiveFromISR0", "QueueBase_reset",
        "QueueBase_peekFromISR", "QueueBase_messagesWaiting",
        "QueueBase_isFullFromISR", "QueueBase_isEmptyFromISR",
        "TimerBase_isActive", "TimerBase_startFromISR",
        "TimerBase_startFromISR0", "TimerBase_stopFromISR",
        "TimerBase_stopFromISR0", "TimerBase_resetFromISR",
        "TimerBase_resetFromISR0", "TimerBase_getReloadMode",
        "StreamBufferBase_reset", "StreamBufferBase_isEmpty",
        "StreamBufferBase_isFull", "MessageBufferBase_reset",
        "MessageBufferBase_isEmpty", "MessageBufferBase_isFull",
        "TaskBase_suspend", "TaskBase_resume", "TaskBase_resumeFromISR",
        "TaskBase_abortDelay", "Kernel_suspendAll", "Kernel_resumeAll"}
       -> <<>>
    [] m \in
       {"EventGroupBase_setFromISR", "EventGroupBase_setFromISR0",
        "EventGroupBase_clearFromISR"}
       -> <<to_ulong(a[1])>>
    [] m \in
       {"QueueBase_sendToBack", "QueueBase_sendToFront",
        "TimerBase_changePeriod", "StreamBufferBase_sendFromISR",
        "StreamBufferBase_receiveFromISR", "MessageBufferBase_sendFromISR",
        "MessageBufferBase_receiveFromISR"}
       -> <<a[1], a[2]>>
    [] m \in
       {"TaskBase_delayUntil"}
       -> <<"&previousWakeTime", a[1]>>
    [] m \in
       {"TaskBase_notify", "TaskBase_notifyAndQueryFromISR",
        "TaskBase_notifyFromISR", "TaskBase_notifyFromISR0"}
       -> <<a[3], to_ulong(a[2]), a[1]>>
(***************************************************************************)
(* C1.  A bool-returning method makes exactly one kernel call: the         *)
(* function its documentation names, on the object's own handle, with the  *)
(* caller's arguments; it returns true exactly when the kernel returned    *)
(* pdTRUE/pdPASS; and the kernel ends in the state the direct call would   *)
(* leave.                                                                  *)
(***************************************************************************)
DirectCall(l) ==
  [fn |-> DocumentedFn(l.m),
   handle |-> IF l.m \in NoHandleMethods THEN NoHandle ELSE l.this.handle,
   args |-> DocumentedArgs(l.m, l.args)]

SameCall(c, d) == c.fn = d.fn /\ c.handle = d.handle /\ c.args = d.args

\* The step completes a call of a bool-returning method.
Completes ==
  last.kind = "none" /\ last'.kind # "none" /\ last'.m \in BoolMethods

\* The step starts a call of a bool-returning method that the kernel holds.
Starts == held = NoHeld /\ held' # NoHeld /\ held'.m \in BoolMethods

\* The step makes the calls cs of invocation l: the one documented call, and
\* the kernel changes as by that call.
Forwards(l, cs) ==
  /\ Len(cs) = 1
  /\ SameCall(cs[1], DirectCall(l))
  /\ kobj' = KApply(kobj, cs[1])
  /\ kobj'[OtherHandle] = kobj[OtherHandle]

\* The completed call has made one kernel call: in this step, or where its
\* wait started if the kernel held the caller.
ForwardedOnce ==
  IF held' = held
  THEN Forwards(last', last'.calls)
  ELSE /\ Len(last'.calls) = 1
       /\ SameCall(last'.calls[1], DirectCall(last'))
       /\ last'.calls = held.calls
       /\ kobj' = kobj

\* C1 as stated: every step that invokes a bool-returning wrapper method
\* forwards one call (documented function, own handle, caller's arguments),
\* returns (kernel result = pdPASS), and changes the kernel as that one call
\* does.
C1_AsStated ==
  [][/\ Completes => /\ ForwardedOnce
                     /\ last'.ret = Returned(last'.kr.ret = pdPASS)
     /\ Starts => Forwards(held', held'.calls)]_vars

\* C1 (amended): every step that invokes a bool-returning wrapper method
\* other than isValid() forwards one call (documented function, own handle,
\* caller's arguments) and changes the kernel as that one call does; it
\* returns (kernel result = pdPASS), except that isActive() returns
\* (kernel result # pdFALSE); isValid() makes no kernel call.  When the
\* kernel holds the caller, the call is forwarded where the wait starts and
\* the result follows the kernel's answer where it ends.
C1_ForwardsOneCall ==
  [][/\ (Completes /\ last'.m \notin ValidMethods)
          => /\ ForwardedOnce
             /\ last'.ret = IF last'.m = "TimerBase_isActive"
                            THEN Returned(last'.kr.ret # pdFALSE)
                            ELSE Returned(last'.kr.ret = pdPASS)
     /\ (Completes /\ last'.m \in ValidMethods)
          => last'.calls = <<>> /\ kobj' = kobj
     /\ Starts => Forwards(held', held'.calls)]_vars

\* isActive() has forwarded xTimerIsTimerActive on the timer's handle, the
\* kernel has answered with a non-zero value other than pdTRUE, and
\* isActive() has returned true.
C1_Witness ==
  /\ last.m = "TimerBase_isActive"
  /\ last.kr.ret \notin {pdFALSE, pdTRUE}
  /\ last.ret = Returned(TRUE)
  /\ kobj[OwnHandle] = last.calls[1]
  /\ kobj[OwnHandle].fn = "xTimerIsTimerActive"

(***************************************************************************)
(* C2.  FromISR overloads with  bool& higherPriorityTaskWoken.             *)
(***************************************************************************)
\* C2: inside one ISR the flag is true exactly when it started true or some
\* FromISR call so far reported a woken task (so a flag initialised to
\* false is true at the end iff at least one call woke a task, and no
\* wrapper ever writes false to it).
C2_FlagIsStickyOr ==
  inIsr => (flag = (flagInit \/ anyWoken))

\* Two calls have shared one flag initialised to false: an earlier one woke
\* a task, the last one did not, and the flag is still true.
C2_Witness ==
  /\ inIsr
  /\ flagInit = FALSE
  /\ last.kind = "isrflag"
  /\ last.flagBefore = TRUE
  /\ last.kr.woken = pdFALSE
  /\ flag = TRUE


(***************************************************************************)
(* Queue layer: tasks and an interrupt handler use one QueueBase object.   *)
(* The wrapper methods are the operators above; the kernel queue they      *)
(* call into is modelled from the behaviour Queue.hpp documents.           *)
(***************************************************************************)
MaxPosts == 3                          \* send calls made in one run
MaxWait == 1                           \* the non-zero ticksToWait callers use
QueueLengthMax == 2
QueueLengths == {1, QueueLengthMax}          \* the shortest queue and the longest
QueueWaits == {0, MaxWait}
QueueTasks == {"t1", "t2"}
Isr == "isr"

SendToBackFns == {"xQueueSendToBack", "xQueueSendToBackFromISR"}
SendToFrontFns == {"xQueueSendToFront", "xQueueSendToFrontFromISR"}
OverwriteFns == {"xQueueOverwrite", "xQueueOverwriteFromISR"}
ReceiveFns == {"xQueueReceive", "xQueueReceiveFromISR"}
PeekFns == {"xQueuePeek", "xQueuePeekFromISR"}
ResetFns == {"xQueueReset"}

\* uxQueueMessagesWaiting: the number of items held.
uxQueueMessagesWaiting(q) == Len(q)

\* Whether kernel call c succeeds on a queue of length n that holds q.
xQueueCanComplete(c, q, n) ==
  CASE c.fn \in SendToBackFns \cup SendToFrontFns -> Len(q) < n
    [] c.fn \in OverwriteFns \cup ResetFns -> TRUE
    [] c.fn \in ReceiveFns \cup PeekFns -> q # <<>>
    [] OTHER -> FALSE

\* The queue contents after kernel call c has succeeded on contents q.
xQueueContentsAfter(c, q) ==
  CASE c.fn \in SendToBackFns -> Append(q, c.args[1])
    [] c.fn \in SendToFrontFns -> <<c.args[1]>> \o q
    [] c.fn \in OverwriteFns -> <<c.args[1]>>
    [] c.fn \in ReceiveFns -> Tail(q)
    [] c.fn \in ResetFns -> <<>>
    [] OTHER -> q

\* The kernel's answer to call c: pdPASS and the front item copied out, or
\* errQUEUE_EMPTY / errQUEUE_FULL (both 0) with the buffer untouched.  A
\* FromISR call reports a woken task if a task was blocked on the queue.
xQueueAnswer(c, q, n, blocked) ==
  IF xQueueCanComplete(c, q, n)
  THEN [ret |-> pdPASS,
        woken |-> IF c.wokenPtr = TaskWokenPtr /\ blocked THEN pdTRUE ELSE pdFALSE,
        out |-> IF c.fn \in ReceiveFns \cup PeekFns THEN Head(q) ELSE 0]
  ELSE [ret |-> 0, woken |-> pdFALSE, out |-> 0]

\* The block time the kernel was given with call c (FromISR calls never block).
xTicksToWait(c) ==
  IF c.fn \in {"xQueueSendToBack", "xQueueSendToFront", "xQueueReceive", "xQueuePeek"}
  THEN c.args[Len(c.args)]
  ELSE 0

QueueSendMethods ==
  {"QueueBase_sendToBack", "QueueBase_sendToFront",
   "QueueBase_sendToBackFromISR", "QueueBase_sendToBackFromISR0",
   "QueueBase_sendToFrontFromISR", "QueueBase_sendToFrontFromISR0"}
QueueFrontMethods ==
  {"QueueBase_sendToFront", "QueueBase_sendToFrontFromISR",
   "QueueBase_sendToFrontFromISR0"}
QueueOverwriteMethods ==
  {"QueueBase_overwrite", "QueueBase_overwriteFromISR", "QueueBase_overwriteFromISR0"}
QueueResetMethods == {"QueueBase_reset"}
QueueReceiveMethods ==
  {"QueueBase_receive", "QueueBase_receiveFromISR", "QueueBase_receiveFromISR0"}
QueuePeekMethods == {"QueueBase_peek", "QueueBase_peekFromISR"}

QueueTaskMethods ==
  {"QueueBase_sendToBack", "QueueBase_sendToFront", "QueueBase_receive", "QueueBase_peek",
   "QueueBase_reset"}
QueueIsrMethods ==
  {"QueueBase_sendToBackFromISR", "QueueBase_sendToBackFromISR0",
   "QueueBase_sendToFrontFromISR", "QueueBase_sendToFrontFromISR0",
   "QueueBase_receiveFromISR", "QueueBase_receiveFromISR0", "QueueBase_peekFromISR"}
MailboxTaskMethods ==
  {"QueueBase_overwrite", "QueueBase_sendToBack", "QueueBase_receive", "QueueBase_peek",
   "QueueBase_reset"}
MailboxIsrMethods ==
  {"QueueBase_overwriteFromISR", "QueueBase_overwriteFromISR0",
   "QueueBase_receiveFromISR", "QueueBase_receiveFromISR0", "QueueBase_peekFromISR"}

\* The argument list method m is called with.
QueueArgs(m, item, ticks) ==
  CASE m \in {"QueueBase_sendToBack", "QueueBase_sendToFront"} -> <<item, ticks>>
    [] m \in {"QueueBase_receive", "QueueBase_peek"} -> <<ticks>>
    [] m \in QueueSendMethods \cup QueueOverwriteMethods -> <<item>>
    [] OTHER -> <<>>

\* Method m of the queue object, in the context it is meant for.
QueueInvoke(m, a, kr) ==
  CASE m \in TaskMethods -> InvokeFromTask(m, Object, a, kr)
    [] m \in IsrFlagMethods -> InvokeFromISRFlag(m, Object, FALSE, a, kr)
    [] OTHER -> InvokeFromISR(m, Object, a, kr)

\* The kernel call method m makes.
QueueKernelCall(m, a) == QueueInvoke(m, a, NoAnswer).calls[1]

\* What messagesWaiting() returns on contents q.
MessagesWaiting(q) ==
  QueueBase_messagesWaiting(Object, [ret |-> uxQueueMessagesWaiting(q),
                                     woken |-> pdFALSE, out |-> 0]).ret

Range(s) == {s[i] : i \in 1 .. Len(s)}

\* What the next call needs to know of a completed call: whether it put an
\* item at the front (a successful sendToFront or peek, or an overwrite) and
\* which item.
NothingBefore == [kind |-> "other", item |-> 0]
Summary(m, item, ret) ==
  CASE m \in QueueFrontMethods /\ ret = TRUE -> [kind |-> "front", item |-> item]
    [] m \in QueueOverwriteMethods -> [kind |-> "overwrite", item |-> item]
    [] m \in QueuePeekMethods /\ ret # None -> [kind |-> "peek", item |-> ret[1]]
    [] OTHER -> NothingBefore

NoQueueCall ==
  [m |-> "none", item |-> 0, waited |-> FALSE, kr |-> NoAnswer,
   ret |-> Void, before |-> <<>>, after |-> <<>>, mwBefore |-> 0, mwAfter |-> 0]
NotWaiting == [m |-> "none", a |-> <<>>, left |-> 0]

\* The queue layer before any call, for a queue created with length n.
QueueStart(n) ==
  /\ queue = <<>>
  /\ qLen = n
  /\ qwait = [t \in QueueTasks |-> NotWaiting]
  /\ nextItem = 1
  /\ posted = <<>>
  /\ received = <<>>
  /\ ahead = {}
  /\ qlast = NoQueueCall
  /\ qprev = NothingBefore
QueueIdle == QueueStart(1)

\* Method m, called by who with arguments a, returns: the kernel call it
\* makes takes effect on the queue and the method translates the answer.
QueueReturn(who, m, a, waited) ==
  LET c == QueueKernelCall(m, a)
      kr == xQueueAnswer(c, queue, qLen, \E t \in QueueTasks : qwait[t].m # "none")
      w == QueueInvoke(m, a, kr)
      after == IF kr.ret = pdPASS THEN xQueueContentsAfter(c, queue) ELSE queue
      item == IF m \in QueueSendMethods \cup QueueOverwriteMethods THEN a[1] ELSE 0
  IN  /\ queue' = after
      /\ qlast' = [m |-> m, item |-> item, waited |-> waited,
                   kr |-> kr, ret |-> w.ret, before |-> queue, after |-> after,
                   mwBefore |-> MessagesWaiting(queue),
                   mwAfter |-> MessagesWaiting(after)]
      /\ qprev' = Summary(qlast.m, qlast.item, qlast.ret)
      /\ posted' = CASE m \in QueueResetMethods -> <<>>
                     [] m \in QueueSendMethods /\ w.ret = TRUE ->
                          Append(posted, [item |-> item, front |-> m \in QueueFrontMethods])
                     [] OTHER -> posted
      /\ received' = CASE m \in QueueResetMethods -> <<>>
                       [] m \in QueueReceiveMethods /\ w.ret # None ->
                            Append(received, w.ret[1])
                       [] OTHER -> received
      /\ ahead' = CASE m \in QueueResetMethods -> {}
                    [] m \in QueueFrontMethods /\ w.ret = TRUE ->
                         ahead \cup {<<item, x>> : x \in Range(queue)}
                    [] OTHER -> ahead

\* Task t calls method m; it returns at once, or t blocks inside the kernel.
QueueCallFromTask(t, m, ticks) ==
  /\ qwait[t].m = "none"
  /\ m \in QueueSendMethods \cup QueueOverwriteMethods => nextItem <= MaxPosts
  /\ LET a == QueueArgs(m, nextItem, ticks)
         c == QueueKernelCall(m, a)
     IN  IF xQueueCanComplete(c, queue, qLen) \/ xTicksToWait(c) = 0
         THEN /\ QueueReturn(t, m, a, FALSE)
              /\ UNCHANGED qwait
         ELSE /\ qwait' = [qwait EXCEPT ![t] = [m |-> m, a |-> a, left |-> xTicksToWait(c)]]
              /\ UNCHANGED <<queue, posted, received, ahead, qlast, qprev>>
  /\ nextItem' = IF m \in QueueSendMethods \cup QueueOverwriteMethods
                 THEN nextItem + 1 ELSE nextItem
  /\ UNCHANGED qLen
  /\ UNCHANGED exceptQueue

\* A blocked task finds the queue ready for its call and returns.
QueueWake(t) ==
  /\ qwait[t].m # "none"
  /\ xQueueCanComplete(QueueKernelCall(qwait[t].m, qwait[t].a), queue, qLen)
  /\ QueueReturn(t, qwait[t].m, qwait[t].a, TRUE)
  /\ qwait' = [qwait EXCEPT ![t] = NotWaiting]
  /\ UNCHANGED <<qLen, nextItem>>
  /\ UNCHANGED exceptQueue

\* A blocked task's block time has expired and the queue is still not ready.
QueueTimeout(t) ==
  /\ qwait[t].m # "none"
  /\ qwait[t].left = 0
  /\ ~xQueueCanComplete(QueueKernelCall(qwait[t].m, qwait[t].a), queue, qLen)
  /\ QueueReturn(t, qwait[t].m, qwait[t].a, TRUE)
  /\ qwait' = [qwait EXCEPT ![t] = NotWaiting]
  /\ UNCHANGED <<qLen, nextItem>>
  /\ UNCHANGED exceptQueue

\* A tick passes for the blocked tasks.
QueueTick ==
  /\ \E t \in QueueTasks : qwait[t].m # "none"
  /\ \A t \in QueueTasks : qwait[t].m # "none" => qwait[t].left > 0
  /\ qwait' = [t \in QueueTasks |->
                 IF qwait[t].m # "none"
                 THEN [qwait[t] EXCEPT !.left = @ - 1] ELSE qwait[t]]
  /\ UNCHANGED <<queue, qLen, nextItem, posted, received, ahead, qlast, qprev>>
  /\ UNCHANGED exceptQueue

\* The interrupt handler calls a FromISR method; it never blocks.
QueueCallFromISR(m) ==
  /\ m \in QueueSendMethods \cup QueueOverwriteMethods => nextItem <= MaxPosts
  /\ QueueReturn(Isr, m, QueueArgs(m, nextItem, 0), FALSE)
  /\ nextItem' = IF m \in QueueSendMethods \cup QueueOverwriteMethods
                 THEN nextItem + 1 ELSE nextItem
  /\ UNCHANGED <<qLen, qwait>>
  /\ UNCHANGED exceptQueue

NextQueue ==
  \/ \E t \in QueueTasks : \E m \in QueueTaskMethods : \E ticks \in QueueWaits :
       QueueCallFromTask(t, m, ticks)
  \/ \E t \in QueueTasks : QueueWake(t)
  \/ \E t \in QueueTasks : QueueTimeout(t)
  \/ QueueTick
  \/ \E m \in QueueIsrMethods : QueueCallFromISR(m)

\* The same callers on a mailbox (a queue of length one), where overwrite
\* and overwriteFromISR may be used as well.
NextMailbox ==
  \/ \E t \in QueueTasks : \E m \in MailboxTaskMethods : \E ticks \in QueueWaits :
       QueueCallFromTask(t, m, ticks)
  \/ \E t \in QueueTasks : QueueWake(t)
  \/ \E t \in QueueTasks : QueueTimeout(t)
  \/ QueueTick
  \/ \E m \in MailboxIsrMethods : QueueCallFromISR(m)

(***************************************************************************)
(* Properties of the queue layer.                                          *)
(***************************************************************************)
\* Position of item x in history h (0 if it is not there).
RECURSIVE IndexOf(_, _)
IndexOf(h, x) ==
  IF h = <<>> THEN 0
  ELSE IF h[Len(h)] = x /\ x \notin Range(SubSeq(h, 1, Len(h) - 1)) THEN Len(h)
  ELSE IndexOf(SubSeq(h, 1, Len(h) - 1), x)

\* x was received, and y was not received before it.
ReceivedBefore(x, y) ==
  /\ x \in Range(received)
  /\ y \in Range(received) => IndexOf(received, x) < IndexOf(received, y)

\* C3: receive(ticksToWait) and receiveFromISR() return an optional that
\* holds a value exactly when the kernel receive succeeded; the value is the
\* item that was at the front of the queue, and that item has been removed.
\* If the queue is empty when the call returns (it stayed empty for the
\* whole wait, or it is empty and ticksToWait is 0), the optional is empty
\* and the queue contents are unchanged.
C3_ReceiveOptional ==
  qlast.m \in QueueReceiveMethods =>
    /\ (qlast.ret # None) <=> (qlast.kr.ret = pdPASS)
    /\ qlast.ret # None =>
         /\ qlast.before # <<>>
         /\ qlast.ret = Some(Head(qlast.before))
         /\ qlast.after = Tail(qlast.before)
    /\ qlast.before = <<>> =>
         /\ qlast.ret = None
         /\ qlast.after = qlast.before

\* A receive() that waited on an empty queue until its block time expired
\* returned an empty optional, after an earlier receive had taken item 1.
C3_Witness ==
  /\ qlast.m = "QueueBase_receive"
  /\ qlast.waited
  /\ qlast.ret = None
  /\ received = <<1>>

\* C4: items posted with sendToBack() are received in the order in which
\* they were posted; an item posted with sendToFront() is returned by the
\* next receive(), and before every item that was in the queue when it was
\* posted; every posted item is still queued or was received exactly once;
\* the queue never holds more items than its length.  The items are those
\* posted since the queue was created or last reset(): a reset returns the
\* queue to its original empty state and the histories with it.
C4_QueueOrder ==
  /\ Len(queue) <= qLen
  /\ \A i, j \in 1 .. Len(posted) :
       (i < j /\ ~posted[i].front /\ ~posted[j].front
          /\ posted[j].item \in Range(received))
         => ReceivedBefore(posted[i].item, posted[j].item)
  /\ \A p \in ahead : p[2] \in Range(received) => ReceivedBefore(p[1], p[2])
  /\ (qprev.kind = "front" /\ qlast.m \in QueueReceiveMethods)
       => qlast.ret = Some(qprev.item)
  /\ Len(received) + Len(queue) = Len(posted)
  /\ Range(received) \cup Range(queue)
       = {posted[i].item : i \in 1 .. Len(posted)}
  /\ Cardinality(Range(received) \cup Range(queue)) = Len(posted)

\* Two items were sent to the back, a third was sent to the front of the
\* queue that held them, and all three have been received by tasks.
C4_Witness ==
  /\ qLen = 2
  /\ Len(posted) = 3
  /\ ~posted[1].front /\ ~posted[2].front /\ posted[3].front
  /\ Len(received) = 3
  /\ ahead # {}
  /\ qlast.m = "QueueBase_receive"
  /\ qlast.waited

\* C5: a successful peek() or peekFromISR() returns the front item and
\* removes nothing: messagesWaiting() is the same before and after, and the
\* next peek or receive on the queue returns the same item.
C5_PeekKeeps ==
  /\ (qlast.m \in QueuePeekMethods /\ qlast.ret # None) =>
       /\ qlast.ret = Some(Head(qlast.before))
       /\ qlast.mwAfter = qlast.mwBefore
       /\ qlast.after = qlast.before
  /\ (qprev.kind = "peek" /\ qlast.m \in QueuePeekMethods \cup QueueReceiveMethods)
       => qlast.ret = Some(qprev.item)

\* The front item of a queue holding two was peeked, and the next call, a
\* receive by a task, returned that item and left one item queued.
C5_Witness ==
  /\ qprev.kind = "peek"
  /\ qlast.m = "QueueBase_receive"
  /\ qlast.ret = Some(qprev.item)
  /\ qlast.mwBefore = 2
  /\ qlast.mwAfter = 1

\* C6: on a queue of length 1, overwrite(v) leaves the queue holding exactly
\* the one item v, whether it was empty or full; a peek that follows returns
\* v and leaves the queue full; a receive that follows returns v and leaves
\* the queue empty.
C6_OverwriteHoldsLast ==
  /\ qlast.m \in QueueOverwriteMethods => qlast.after = <<qlast.item>>
  /\ (qprev.kind = "overwrite" /\ qlast.m \in QueuePeekMethods)
       => /\ qlast.ret = Some(qprev.item)
          /\ MessagesWaiting(qlast.after) = qLen
  /\ (qprev.kind = "overwrite" /\ qlast.m \in QueueReceiveMethods)
       => /\ qlast.ret = Some(qprev.item)
          /\ qlast.after = <<>>

\* A value was written to the mailbox by overwrite after an earlier one,
\* and the receive() that followed returned it and emptied the mailbox.
C6_Witness ==
  /\ qprev.kind = "overwrite"
  /\ qprev.item > 1
  /\ qlast.m = "QueueBase_receive"
  /\ qlast.before = <<qprev.item>>
  /\ qlast.ret = Some(qprev.item)
  /\ queue = <<>>

(***************************************************************************)
(* Task lifetime layer: Task objects are constructed (xTaskCreate), moved, *)
(* asked isValid(), and destroyed (~TaskBase).  The kernel's task table    *)
(* and heap are modelled from the behaviour Task.hpp documents.            *)
(***************************************************************************)
MaxTaskHeap == 2                       \* tasks the kernel heap has room for
TaskObjects == {"task1", "task2", "task3"}
TaskHandles == {"tcb1", "tcb2", "tcb3"}
CallerTask == "caller"                 \* the task running the code below
Priorities == {0, 1}

\* Task::Task(priority, stackDepth, name): the constructor's kernel call and
\* the fields of the object afterwards.  kr.out is what the kernel left in
\* handle (passed as &handle).
Task_Task(this, priority, stackDepth, name, kr) ==
  [calls |-> <<KCall("xTaskCreate", NoHandle,
                     <<"callTaskFunction", name, stackDepth, this.id, priority, "&handle">>,
                     NoWokenPtr)>>,
   this |-> [this EXCEPT !.handle = kr.out,
                         !.taskCreatedSuccessfully = (kr.ret = pdPASS)]]

\* Task(Task&&) = default and Task& operator=(Task&&) = default: each
\* member of this takes the value of the same member of other, and other
\* keeps its own.
Task_move(this, other) ==
  [this EXCEPT !.handle = other.handle,
               !.previousWakeTime = other.previousWakeTime,
               !.taskCreatedSuccessfully = other.taskCreatedSuccessfully]

\* TaskBase::~TaskBase(): the kernel calls the destructor makes in a build
\* with the given INCLUDE_vTaskDelete.
TaskBase_destructor(this, INCLUDE_vTaskDelete) ==
  IF INCLUDE_vTaskDelete = 1
  THEN IF this.handle # NULL
       THEN <<KCall("vTaskDelete", this.handle, <<>>, NoWokenPtr)>>
       ELSE <<>>
  ELSE <<>>

\* The fields of a TaskBase / Task object as declared (handle = NULL,
\* previousWakeTime = 0, taskCreatedSuccessfully = false).
TaskFields(o) ==
  [id |-> o, handle |-> NULL, previousWakeTime |-> 0, taskCreatedSuccessfully |-> FALSE]

\* Kernel xTaskCreate: with room on the heap a task is created with handle h
\* and the handle is stored through pxCreatedTask; otherwise
\* errCOULD_NOT_ALLOCATE_REQUIRED_MEMORY (-1) and *pxCreatedTask untouched.
xTaskCreate(c, pointee, h, kt, heap) ==
  IF Cardinality(kt) <= heap
  THEN [ret |-> pdPASS, out |-> h,
        tasks |-> kt \cup {[handle |-> h, parameter |-> c.args[4], priority |-> c.args[5]]}]
  ELSE [ret |-> 0 - 1, out |-> pointee, tasks |-> kt]

\* Kernel vTaskDelete(xTask): removes xTask, or the calling task if NULL.
\* A handle whose task was deleted before names freed memory: the call
\* removes whatever task has been created there since, if any.
vTaskDelete(c, kt) ==
  {k \in kt : k.handle # (IF c.handle = NULL THEN CallerTask ELSE c.handle)}

RECURSIVE vTaskDeleteAll(_, _)
vTaskDeleteAll(cs, kt) ==
  IF cs = <<>> THEN kt ELSE vTaskDeleteAll(Tail(cs), vTaskDelete(Head(cs), kt))

\* An object that does not exist (yet).
NoTaskObject(o) ==
  [life |-> "none", this |-> TaskFields(o), passed |-> FALSE, made |-> NULL,
   valid |-> "unasked", deleted |-> <<>>]

\* The layer before any object is constructed: only the calling task exists.
TaskStart(del, heap) ==
  /\ tobj = [o \in TaskObjects |-> NoTaskObject(o)]
  /\ ktasks = {[handle |-> CallerTask, parameter |-> "none", priority |-> 0]}
  /\ tcfg = [INCLUDE_vTaskDelete |-> del, heap |-> heap]
TaskIdle == TaskStart(1, 0)

\* MyTask task(priority, "NAME");
TaskConstruct(o, priority, h) ==
  /\ tobj[o].life = "none"
  /\ h \notin {k.handle : k \in ktasks}
  /\ LET this == TaskFields(o)
         c == Task_Task(this, priority, 1, "NAME", NoAnswer).calls[1]
         kr == xTaskCreate(c, this.handle, h, ktasks, tcfg.heap)
         w == Task_Task(this, priority, 1, "NAME", kr)
     IN  /\ tobj' = [tobj EXCEPT ![o] =
                       [life |-> "live", this |-> w.this, passed |-> (kr.ret = pdPASS),
                        made |-> IF kr.ret = pdPASS THEN h ELSE NULL,
                        valid |-> "unasked", deleted |-> <<>>]]
         /\ ktasks' = kr.tasks
  /\ UNCHANGED tcfg
  /\ UNCHANGED exceptTask

\* MyTask task(std::move(other));  no kernel call is made.
TaskMoveConstruct(o, other) ==
  /\ tobj[o].life = "none"
  /\ o # other
  /\ tobj[other].life = "live"
  /\ tobj' = [tobj EXCEPT ![o] =
                [life |-> "live",
                 this |-> Task_move(TaskFields(o), tobj[other].this),
                 passed |-> FALSE, made |-> NULL,
                 valid |-> "unasked", deleted |-> <<>>]]
  /\ UNCHANGED <<ktasks, tcfg>>
  /\ UNCHANGED exceptTask

\* task = std::move(other);  no kernel call is made.
TaskMoveAssign(o, other) ==
  /\ tobj[o].life = "live"
  /\ o # other
  /\ tobj[other].life = "live"
  /\ tobj[o].this # Task_move(tobj[o].this, tobj[other].this)
  /\ tobj' = [tobj EXCEPT ![o].this = Task_move(@, tobj[other].this),
                          ![o].valid = "unasked"]
  /\ UNCHANGED <<ktasks, tcfg>>
  /\ UNCHANGED exceptTask

\* if (task.isValid()) ...
TaskAskValid(o) ==
  /\ tobj[o].life = "live"
  /\ tobj[o].valid = "unasked"
  /\ tobj' = [tobj EXCEPT ![o].valid = IF Task_isValid(tobj[o].this) THEN "yes" ELSE "no"]
  /\ UNCHANGED <<ktasks, tcfg>>
  /\ UNCHANGED exceptTask

\* The object goes out of scope: ~Task() runs ~TaskBase().
TaskDestroy(o) ==
  /\ tobj[o].life = "live"
  /\ LET cs == TaskBase_destructor(tobj[o].this, tcfg.INCLUDE_vTaskDelete)
     IN  /\ tobj' = [tobj EXCEPT ![o].life = "gone",
                                 ![o].deleted = [i \in 1 .. Len(cs) |-> cs[i].handle]]
         /\ ktasks' = vTaskDeleteAll(cs, ktasks)
  /\ UNCHANGED tcfg
  /\ UNCHANGED exceptTask

NextTask ==
  \/ \E o \in TaskObjects : \E p \in Priorities : \E h \in TaskHandles :
       TaskConstruct(o, p, h)
  \/ \E o, other \in TaskObjects : TaskMoveConstruct(o, other)
  \/ \E o, other \in TaskObjects : TaskMoveAssign(o, other)
  \/ \E o \in TaskObjects : TaskAskValid(o)
  \/ \E o \in TaskObjects : TaskDestroy(o)

(***************************************************************************)
(* Properties of the task lifetime layer.                                  *)
(***************************************************************************)
\* The calling task exists.
CallerAlive == \E k \in ktasks : k.handle = CallerTask

\* isValid() is true exactly when the object's xTaskCreate returned pdPASS
\* (passed; an object that made no xTaskCreate call has none that did), and
\* after a failed creation the handle is NULL and the destructor deletes
\* nothing.
ValidIffCreated(o) ==
  /\ Task_isValid(tobj[o].this) <=> tobj[o].passed
  /\ tobj[o].valid = "yes" => tobj[o].passed
  /\ tobj[o].valid = "no" => ~tobj[o].passed
  /\ ~tobj[o].passed =>
       /\ tobj[o].this.handle = NULL
       /\ tobj[o].life = "gone" => tobj[o].deleted = <<>>

\* C7: isValid() is true exactly when xTaskCreate returned pdPASS; after a
\* failed creation the handle stays NULL and the destructor makes no
\* vTaskDelete call, so the calling task is never deleted; after a
\* successful creation the destructor deletes exactly the task created by
\* that object.  The last part is read in a build with
\* INCLUDE_vTaskDelete == 1, the only one in which ~TaskBase() makes any
\* kernel call.
C7_DeletesOwnTask ==
  /\ CallerAlive
  /\ \A o \in TaskObjects :
       tobj[o].life # "none" =>
         /\ ValidIffCreated(o)
         /\ (tobj[o].passed /\ tobj[o].life = "gone"
               /\ tcfg.INCLUDE_vTaskDelete = 1)
              => tobj[o].deleted = <<tobj[o].made>>


(***************************************************************************)
(* Timer lifetime layer: a Timer object is constructed (xTimerCreate),     *)
(* used, deleted with deleteTimer() and destroyed (~TimerBase).  The       *)
(* kernel's timer command queue and daemon task are modelled from the      *)
(* behaviour Timer.hpp documents.                                          *)
(***************************************************************************)
TimerQueueLength == 2                  \* configTIMER_QUEUE_LENGTH
MaxTimerCalls == 3                     \* calls made on the object before it is destroyed
TimerHandle == "tmr1"
BlockTimes == {0, 1}

\* Timer::Timer(period, autoReload, name, deleteBlockTime): TimerBase's
\* constructor stores deleteBlockTime, the body stores what xTimerCreate
\* returned.
Timer_Timer(period, autoReload, name, deleteBlockTime, kr) ==
  [calls |-> <<KCall("xTimerCreate", NoHandle,
                     <<name, period, IF autoReload THEN pdTRUE ELSE pdFALSE,
                       "this", "callTimerFunction">>, NoWokenPtr)>>,
   this |-> [handle |-> kr.ret, deleteBlockTime |-> deleteBlockTime]]

\* TimerBase::getDeleteBlockTime()
TimerBase_getDeleteBlockTime(this) == this.deleteBlockTime

\* TimerBase::setDeleteBlockTime(deleteBlockTime)
TimerBase_setDeleteBlockTime(this, deleteBlockTime) ==
  [this EXCEPT !.deleteBlockTime = deleteBlockTime]

\* TimerBase::~TimerBase()
TimerBase_destructor(this, kr) ==
  IF TimerBase_isValid(this)
  THEN TimerBase_deleteTimer(this, TimerBase_getDeleteBlockTime(this), kr)
  ELSE [calls |-> <<>>, this |-> this, ret |-> FALSE]

\* Kernel xTimerCreate: the new timer's handle, or NULL without memory.
xTimerCreate(enoughMemory) ==
  [ret |-> IF enoughMemory THEN TimerHandle ELSE NULL, woken |-> pdFALSE, out |-> 0]

\* The timer daemon task takes the command at the head of the queue; a
\* delete command removes the timer it names.
prvProcessReceivedCommands(k) ==
  [k EXCEPT !.queue = Tail(@),
            !.timers = IF Head(k.queue).fn = "xTimerDelete"
                       THEN @ \ {Head(k.queue).handle} ELSE @]

\* Kernel xTimerStart / xTimerDelete / ...: the command is sent to the timer
\* command queue.  It is accepted if the queue has room, and refused if the
\* queue is full (at once with a block time of 0, otherwise when the block
\* time has expired).  The kernel state afterwards and the return value.
xTimerGenericCommand(c, k) ==
  IF Len(k.queue) < TimerQueueLength
  THEN [kernel |-> [k EXCEPT !.queue = Append(@, [fn |-> c.fn, handle |-> c.handle])],
        ret |-> pdPASS]
  ELSE [kernel |-> k, ret |-> 0]

xTimerCommands(cs, k) ==
  IF cs = <<>> THEN [kernel |-> k, ret |-> 0]
  ELSE xTimerGenericCommand(cs[1], k)

\* The caller is held in the Blocked state: the queue is full and the command
\* came with a block time, the last argument of xTimerStart, xTimerStop,
\* xTimerReset, xTimerDelete and xTimerChangePeriod.
xTimerCommandWaits(cs, k) ==
  /\ cs # <<>>
  /\ Len(k.queue) = TimerQueueLength
  /\ cs[1].args[Len(cs[1].args)] > 0

\* configASSERT( xTimer ) in the kernel: a build with assertions stops at a
\* command for the NULL handle.
AssertFails(cs, k) == k.asserts /\ cs # <<>> /\ cs[1].handle = NULL

NoPending == [name |-> "none", args |-> <<>>, calls |-> <<>>]

\* The command senders a task calls with a block time, and the ones an
\* interrupt handler calls.
TimerTaskMethods ==
  {"TimerBase_start", "TimerBase_stop", "TimerBase_reset", "TimerBase_changePeriod"}
TimerIsrMethods ==
  {"TimerBase_startFromISR0", "TimerBase_stopFromISR0", "TimerBase_resetFromISR0",
   "TimerBase_changePeriodFromISR0"}
TimerIsrFlagMethods ==
  {"TimerBase_startFromISR", "TimerBase_stopFromISR", "TimerBase_resetFromISR",
   "TimerBase_changePeriodFromISR"}

\* The layer before the object is constructed.  pending is the method whose
\* kernel call has the caller blocked on the full command queue.
TimerStartState(asserts) ==
  /\ tmr = [life |-> "none", this |-> [handle |-> NULL, deleteBlockTime |-> 0],
            ncalls |-> 0, accepted |-> <<>>, last |-> "none", ret |-> FALSE,
            before |-> NULL, pending |-> NoPending]
  /\ ktmr = [timers |-> {}, queue |-> <<>>, asserts |-> asserts, halted |-> FALSE]
TimerIdle == TimerStartState(FALSE)

\* MyTimer timer;
TimerConstruct(deleteBlockTime, enoughMemory) ==
  /\ tmr.life = "none"
  /\ LET w == Timer_Timer(1, FALSE, "", deleteBlockTime, xTimerCreate(enoughMemory))
     IN  /\ tmr' = [tmr EXCEPT !.life = "live", !.this = w.this, !.last = "Timer"]
         /\ ktmr' = [ktmr EXCEPT !.timers = IF enoughMemory THEN {TimerHandle} ELSE {}]
  /\ UNCHANGED exceptTimer

\* The kernel call of method name returns: the command is on the queue or
\* was refused, and the method acts on the answer.
TimerReturn(name, args, calls) ==
  LET r == xTimerCommands(calls, ktmr)
      kr == [ret |-> r.ret, woken |-> pdFALSE, out |-> 0]
      w == CASE name = "deleteTimer" ->
                  TimerBase_deleteTimer(tmr.this, calls[1].args[1], kr)
             [] name = "~TimerBase" -> TimerBase_destructor(tmr.this, kr)
             [] OTHER -> [this |-> tmr.this,
                          ret |-> InvokeFromTask(name, tmr.this, args, kr).ret]
  IN  /\ ktmr' = r.kernel
      /\ tmr' = [tmr EXCEPT
                   !.life = IF name = "~TimerBase" THEN "gone" ELSE @,
                   !.this = w.this,
                   !.ncalls = @ + 1,
                   !.accepted = IF calls # <<>> /\ calls[1].fn = "xTimerDelete"
                                   /\ r.ret = pdPASS
                                THEN Append(@, calls[1].handle) ELSE @,
                   !.last = name,
                   !.ret = w.ret,
                   !.before = tmr.this.handle,
                   !.pending = NoPending]

\* A method of the live object sends a command: the kernel answers at once,
\* or holds the caller until the queue has room or the block time is over.
TimerCommand(name, args, w0) ==
  IF AssertFails(w0.calls, ktmr)
  THEN /\ ktmr' = [ktmr EXCEPT !.halted = TRUE]
       /\ tmr' = [tmr EXCEPT !.last = "assert"]
  ELSE IF xTimerCommandWaits(w0.calls, ktmr)
  THEN /\ tmr' = [tmr EXCEPT !.pending = [name |-> name, args |-> args,
                                         calls |-> w0.calls]]
       /\ UNCHANGED ktmr
  ELSE TimerReturn(name, args, w0.calls)

\* The object's methods are called from one task, which is not blocked.
TimerCallable ==
  tmr.life = "live" /\ ~ktmr.halted /\ tmr.pending = NoPending

\* timer.start(blockTime);
TimerStart(blockTime) ==
  /\ TimerCallable /\ tmr.ncalls < MaxTimerCalls
  /\ TimerCommand("TimerBase_start", <<blockTime>>,
                  TimerBase_start(tmr.this, blockTime, NoAnswer))
  /\ UNCHANGED exceptTimer

\* timer.stop(blockTime);
TimerStop(blockTime) ==
  /\ TimerCallable /\ tmr.ncalls < MaxTimerCalls
  /\ TimerCommand("TimerBase_stop", <<blockTime>>,
                  TimerBase_stop(tmr.this, blockTime, NoAnswer))
  /\ UNCHANGED exceptTimer

\* timer.reset(blockTime);
TimerReset(blockTime) ==
  /\ TimerCallable /\ tmr.ncalls < MaxTimerCalls
  /\ TimerCommand("TimerBase_reset", <<blockTime>>,
                  TimerBase_reset(tmr.this, blockTime, NoAnswer))
  /\ UNCHANGED exceptTimer

\* timer.changePeriod(newPeriod, blockTime);
TimerChangePeriod(newPeriod, blockTime) ==
  /\ TimerCallable /\ tmr.ncalls < MaxTimerCalls
  /\ TimerCommand("TimerBase_changePeriod", <<newPeriod, blockTime>>,
                  TimerBase_changePeriod(tmr.this, newPeriod, blockTime, NoAnswer))
  /\ UNCHANGED exceptTimer

\* An interrupt handler calls a FromISR sender, also while the task is
\* blocked: the kernel queues the command or refuses it, and never waits.
\* The handler's flag is its own local and is not kept.
TimerSendFromISR(m, a) ==
  /\ tmr.life = "live" /\ ~ktmr.halted /\ tmr.ncalls < MaxTimerCalls
  /\ LET w0 == IF m \in TimerIsrFlagMethods
               THEN InvokeFromISRFlag(m, tmr.this, FALSE, a, NoAnswer)
               ELSE InvokeFromISR(m, tmr.this, a, NoAnswer)
         r == xTimerCommands(w0.calls, ktmr)
         kr == [ret |-> r.ret, woken |-> pdFALSE, out |-> 0]
         w == IF m \in TimerIsrFlagMethods
              THEN InvokeFromISRFlag(m, tmr.this, FALSE, a, kr)
              ELSE InvokeFromISR(m, tmr.this, a, kr)
     IN  IF AssertFails(w0.calls, ktmr)
         THEN /\ ktmr' = [ktmr EXCEPT !.halted = TRUE]
              /\ tmr' = [tmr EXCEPT !.last = "assert"]
         ELSE /\ ktmr' = r.kernel
              /\ tmr' = [tmr EXCEPT !.ncalls = @ + 1, !.last = w0.calls[1].fn,
                                    !.ret = w.ret, !.before = tmr.this.handle]
  /\ UNCHANGED exceptTimer

\* timer.deleteTimer(blockTime);
TimerDelete(blockTime) ==
  /\ TimerCallable /\ tmr.ncalls < MaxTimerCalls
  /\ TimerCommand("deleteTimer", <<blockTime>>,
                  TimerBase_deleteTimer(tmr.this, blockTime, NoAnswer))
  /\ UNCHANGED exceptTimer

\* The daemon has made room while the caller was blocked: the command is
\* queued and the kernel call returns pdPASS.
TimerWake ==
  /\ tmr.pending # NoPending
  /\ Len(ktmr.queue) < TimerQueueLength
  /\ TimerReturn(tmr.pending.name, tmr.pending.args, tmr.pending.calls)
  /\ UNCHANGED exceptTimer

\* The block time is over with the queue still full: the kernel call
\* returns pdFAIL.
TimerTimeout ==
  /\ tmr.pending # NoPending
  /\ Len(ktmr.queue) = TimerQueueLength
  /\ TimerReturn(tmr.pending.name, tmr.pending.args, tmr.pending.calls)
  /\ UNCHANGED exceptTimer

\* timer.setDeleteBlockTime(deleteBlockTime);
TimerSetDeleteBlockTime(deleteBlockTime) ==
  /\ TimerCallable
  /\ tmr.this.deleteBlockTime # deleteBlockTime
  /\ tmr' = [tmr EXCEPT !.this = TimerBase_setDeleteBlockTime(@, deleteBlockTime),
                        !.last = "setDeleteBlockTime"]
  /\ UNCHANGED ktmr
  /\ UNCHANGED exceptTimer

\* The object goes out of scope: ~Timer() runs ~TimerBase().
TimerDestroy ==
  /\ TimerCallable
  /\ TimerCommand("~TimerBase", <<>>, TimerBase_destructor(tmr.this, NoAnswer))
  /\ UNCHANGED exceptTimer

\* The timer daemon task runs, also while the caller is blocked.
TimerDaemon ==
  /\ ~ktmr.halted
  /\ ktmr.queue # <<>>
  /\ ktmr' = prvProcessReceivedCommands(ktmr)
  /\ UNCHANGED tmr
  /\ UNCHANGED exceptTimer

NextTimer ==
  \/ \E bt \in BlockTimes : \E mem \in BOOLEAN : TimerConstruct(bt, mem)
  \/ \E bt \in BlockTimes : TimerStart(bt)
  \/ \E bt \in BlockTimes : TimerStop(bt)
  \/ \E bt \in BlockTimes : TimerReset(bt)
  \/ \E p \in Periods : \E bt \in BlockTimes : TimerChangePeriod(p, bt)
  \/ \E m \in TimerIsrMethods \cup TimerIsrFlagMethods : \E a \in ArgsOf(m) :
       TimerSendFromISR(m, a)
  \/ \E bt \in BlockTimes : TimerDelete(bt)
  \/ TimerWake
  \/ TimerTimeout
  \/ \E bt \in BlockTimes : TimerSetDeleteBlockTime(bt)
  \/ TimerDestroy
  \/ TimerDaemon

(***************************************************************************)
(* Properties of the timer lifetime layer.                                 *)
(***************************************************************************)
\* C8 as stated: deleteTimer(blockTime) sets the handle to NULL and returns
\* true when the delete command was accepted by the timer command queue, and
\* returns false leaving the handle unchanged otherwise; the destructor
\* calls deleteTimer only when isValid() is true; isValid() is false after a
\* successful deleteTimer(); and over every sequence of deleteTimer() calls
\* followed by destruction a delete command is accepted at most once for the
\* timer object.
C8_DeleteAcceptedOnce ==
  /\ (tmr.last = "deleteTimer" /\ tmr.ret) =>
       /\ tmr.this.handle = NULL
       /\ ~TimerBase_isValid(tmr.this)
  /\ (tmr.last = "deleteTimer" /\ ~tmr.ret) => tmr.this.handle = tmr.before
  /\ (tmr.last = "~TimerBase" /\ tmr.before = NULL) => ~tmr.ret
  /\ Len(tmr.accepted) <= 1

(***************************************************************************)
(* Periodic task layer: the kernel starts a task at taskEntry(), whose     *)
(* taskFunction() loops on delayUntil(T) and may call delay() in the loop  *)
(* body; the application may call abortDelay(), suspend() and resume() on  *)
(* the task, suspend and resume the scheduler, and move the tick count     *)
(* with stepTick() and catchUpTicks().  The tick counter is TickBits wide  *)
(* and wraps; the kernel functions and the tick handler are modelled from  *)
(* the behaviour Task.hpp documents.                                       *)
(***************************************************************************)
TickBits == 3                          \* width of TickType_t
TickModulus == 2 ^ TickBits
MaxTicks == 20                         \* ticks in one run
MaxPeriod == 3
MaxDelayCalls == 8                     \* delayUntil calls in one run
MaxEntry == 3                          \* the task first runs by this tick
DelayPeriods == 0 .. MaxPeriod         \* timeIncrement values (0 is the default)
MaxSleep == 1
SleepTicks == 0 .. MaxSleep            \* ticksToDelay values
TickCounts == 0 .. MaxPeriod           \* ticksToJump, ticksToCatchUp values
MaxSuspendAll == 1                     \* suspendAll() calls nested
MaxPended == 1                         \* ticks held back while the scheduler is suspended
DelayHandle == "tcb1"                  \* the handle the kernel gives the task

\* FreeRTOS::Kernel::getTickCount()
Kernel_getTickCount(kr) ==
  [calls |-> <<KCall("xTaskGetTickCount", NoHandle, <<>>, NoWokenPtr)>>,
   ret |-> kr.ret]

\* Variant: starts taskFunction() without reading the tick count.
TaskBase_taskEntry_noInit(this, kr) ==
  [calls |-> <<>>, this |-> this]

\* TaskBase::taskEntry(): previousWakeTime = getTickCount(); taskFunction();
TaskBase_taskEntry(this, kr) ==
  [calls |-> Kernel_getTickCount(kr).calls,
   this |-> [this EXCEPT !.previousWakeTime = Kernel_getTickCount(kr).ret]]

\* Task::delay(ticksToDelay)
Task_delay(ticksToDelay, kr) ==
  [calls |-> <<KCall("vTaskDelay", NoHandle, <<ticksToDelay>>, NoWokenPtr)>>,
   ret |-> Void]

\* Kernel::stepTick(ticksToJump)
Kernel_stepTick(ticksToJump, kr) ==
  [calls |-> <<KCall("vTaskStepTick", NoHandle, <<ticksToJump>>, NoWokenPtr)>>,
   ret |-> Void]

\* Kernel xTaskGetTickCount.
xTaskGetTickCount(tick) == [ret |-> tick, woken |-> pdFALSE, out |-> 0]

\* Kernel xTaskDelayUntil(pxPreviousWakeTime, xTimeIncrement) at tick count
\* tick: the wake time is *pxPreviousWakeTime + xTimeIncrement in TickType_t
\* arithmetic; the task is delayed if that time is still to come (told apart
\* from a past time by whether the counter or the sum wrapped);
\* *pxPreviousWakeTime becomes the wake time either way.
xTaskDelayUntil(c, pxPreviousWakeTime, tick) ==
  LET xTimeToWake == (pxPreviousWakeTime + c.args[2]) % TickModulus
      xShouldDelay ==
        IF tick < pxPreviousWakeTime
        THEN xTimeToWake < pxPreviousWakeTime /\ xTimeToWake > tick
        ELSE xTimeToWake < pxPreviousWakeTime \/ xTimeToWake > tick
  IN  [ret |-> IF xShouldDelay THEN pdTRUE ELSE pdFALSE,
       woken |-> pdFALSE,
       out |-> xTimeToWake]

\* Kernel vTaskDelay(xTicksToDelay) at tick count tick: the calling task
\* blocks until xTicksToDelay ticks from now; with 0 it only yields.
vTaskDelay(c, tick) ==
  [ret |-> IF c.args[1] > 0 THEN pdTRUE ELSE pdFALSE,
   woken |-> pdFALSE,
   out |-> (tick + c.args[1]) % TickModulus]

\* Kernel xTaskAbortDelay: pdPASS if the task was in the Blocked state (it
\* leaves that state), pdFAIL (0) otherwise.
xTaskAbortDelay(c, blocked) ==
  [ret |-> IF c.fn = "xTaskAbortDelay" /\ blocked THEN pdPASS ELSE 0,
   woken |-> pdFALSE, out |-> 0]

\* Kernel vTaskSuspend on task state t: the task leaves the ready or the
\* delayed list, and with that its wake time, and gets no processing time.
vTaskSuspend(c, t) ==
  [t EXCEPT !.suspended = TRUE,
            !.pc = IF @ \in {"delayed", "sleeping"} THEN "running" ELSE @,
            !.wake = 0]

\* Kernel vTaskResume: a suspended task is ready again.
vTaskResume(c, t) == [t EXCEPT !.suspended = FALSE]

\* Kernel xTaskResumeFromISR: as vTaskResume; pdTRUE if the task was
\* suspended and is to run next.
xTaskResumeFromISR(c, t, runsNext) ==
  [task |-> [t EXCEPT !.suspended = FALSE],
   ret |-> IF t.suspended /\ runsNext THEN pdTRUE ELSE pdFALSE,
   woken |-> pdFALSE, out |-> 0]

\* No delayUntil call was made in the last step.
NoDelayCall ==
  [made |-> FALSE, at |-> 0, due |-> 0, early |-> FALSE, ret |-> FALSE, blocked |-> FALSE]

\* MyTask task;  Task::Task() has created the task and the kernel had room.
DelayTask ==
  LET this == TaskFields("task1")
      c == Task_Task(this, 0, 1, "NAME", NoAnswer).calls[1]
      kr == xTaskCreate(c, this.handle, DelayHandle, {}, 0)
  IN  Task_Task(this, 0, 1, "NAME", kr).this

\* The layer when the scheduler starts, for a task whose loop uses period T.
\* wake is the tick count at which a blocked task is to be unblocked; call
\* describes the delayUntil call if the last step was one.  onTime: every
\* loop body so far ended before the next wake time; onGrid: every
\* delayUntil so far that was called on time returned at entry + k * T.
\* Both describe the task up to the first delayUntil wait that abortDelay()
\* or suspend() ended (cut).  pc: "new" (not yet run), "running", "delayed"
\* (blocked in delayUntil) or "sleeping" (blocked in delay); suspended: the
\* task is in the Suspended state and goes on from pc when resumed.
DelayStart(T) ==
  /\ dtask = [pc |-> "new", suspended |-> FALSE, this |-> DelayTask, T |-> T,
              entry |-> 0, k |-> 0, onTime |-> TRUE, onGrid |-> TRUE, wake |-> 0,
              cut |-> FALSE,
              call |-> NoDelayCall]
  /\ xTickCount = 0
  /\ uxSchedulerSuspended = 0
  /\ xPendedTicks = 0
  /\ now = 0
DelayIdle == DelayStart(0)

\* The task can run: it is not suspended and the scheduler is not either.
CanRun == ~dtask.suspended /\ uxSchedulerSuspended = 0

\* The wake time the task's loop expects next, in ticks since the start.
Due == dtask.entry + (dtask.k + 1) * dtask.T

\* The task is in the Blocked state.
Blocked == dtask.pc \in {"delayed", "sleeping"}

\* Ticks from the tick count to the wake time of the blocked task.
TicksToWake == (dtask.wake + TickModulus - xTickCount) % TickModulus

\* A task that is not blocked in delayUntil calls it again before the counter
\* has gone once round since its previous wake time, and a new task first
\* runs by tick MaxEntry: the tick count may reach t only if that is so.
BeforeWrap(t) ==
  /\ dtask.pc \in {"running", "sleeping"} =>
       t < dtask.entry + dtask.k * dtask.T + TickModulus
  /\ dtask.pc = "new" => t <= MaxEntry

\* onGrid once the task has returned from delayUntil at tick t.
OnGrid(t) ==
  IF dtask.cut THEN dtask.onGrid
  ELSE dtask.onGrid /\ (dtask.onTime => t = dtask.entry + dtask.k * dtask.T)

\* The kernel counts n ticks (xTaskIncrementTick n times): the counter
\* advances and wraps, and a blocked task whose wake time comes is unblocked
\* at that tick.
TicksPass(n) ==
  /\ now' = now + n
  /\ xTickCount' = (xTickCount + n) % TickModulus
  /\ dtask' = IF Blocked /\ TicksToWake <= n
              THEN [dtask EXCEPT !.pc = "running", !.wake = 0, !.call = NoDelayCall,
                                 !.onGrid = IF dtask.pc = "delayed"
                                            THEN OnGrid(now + TicksToWake) ELSE @]
              ELSE [dtask EXCEPT !.call = NoDelayCall]

\* The kernel runs the task for the first time: callTaskFunction(this)
\* calls taskEntry().
DelayTaskEntry ==
  /\ dtask.pc = "new"
  /\ CanRun
  /\ LET w == TaskBase_taskEntry(dtask.this, xTaskGetTickCount(xTickCount))
     IN  dtask' = [dtask EXCEPT !.pc = "running", !.this = w.this, !.entry = now]
  /\ UNCHANGED <<xTickCount, uxSchedulerSuspended, xPendedTicks, now>>
  /\ UNCHANGED exceptDelay

\* The loop body ends:  auto wasDelayed = delayUntil(xFrequency);
DelayUntilCall ==
  /\ dtask.pc = "running"
  /\ CanRun
  /\ dtask.k < MaxDelayCalls
  /\ LET c == TaskBase_delayUntil(dtask.this, dtask.T, NoAnswer).calls[1]
         kr == xTaskDelayUntil(c, dtask.this.previousWakeTime, xTickCount)
         w == TaskBase_delayUntil(dtask.this, dtask.T, kr)
         onTime == IF dtask.cut THEN dtask.onTime ELSE dtask.onTime /\ now < Due
     IN  dtask' = [dtask EXCEPT
                     !.pc = IF kr.ret = pdTRUE THEN "delayed" ELSE "running",
                     !.this = w.this,
                     !.k = @ + 1,
                     !.onTime = onTime,
                     !.onGrid = IF kr.ret = pdTRUE \/ dtask.cut THEN @
                                ELSE @ /\ (onTime => now = Due),
                     !.wake = IF kr.ret = pdTRUE THEN kr.out ELSE 0,
                     !.call = [made |-> TRUE, at |-> now, due |-> Due,
                               early |-> now < dtask.entry + dtask.k * dtask.T,
                               ret |-> w.ret,
                               blocked |-> (kr.ret = pdTRUE)]]
  /\ UNCHANGED <<xTickCount, uxSchedulerSuspended, xPendedTicks, now>>
  /\ UNCHANGED exceptDelay

\* The loop body calls delay(n): the task blocks for n ticks and
\* previousWakeTime is not touched.
DelayCall(n) ==
  /\ dtask.pc = "running"
  /\ CanRun
  /\ now + n <= MaxTicks
  /\ now + n < dtask.entry + dtask.k * dtask.T + TickModulus
  /\ LET c == Task_delay(n, NoAnswer).calls[1]
         kr == vTaskDelay(c, xTickCount)
     IN  dtask' = IF kr.ret = pdTRUE
                  THEN [dtask EXCEPT !.pc = "sleeping", !.wake = kr.out,
                                     !.call = NoDelayCall]
                  ELSE [dtask EXCEPT !.call = NoDelayCall]
  /\ UNCHANGED <<xTickCount, uxSchedulerSuspended, xPendedTicks, now>>
  /\ UNCHANGED exceptDelay

\* Another task calls abortDelay() on the task: a blocked task leaves the
\* Blocked state at once and returns from delay() or delayUntil().
DelayAbort ==
  /\ uxSchedulerSuspended = 0
  /\ LET c == TaskBase_abortDelay(dtask.this, NoAnswer).calls[1]
         kr == xTaskAbortDelay(c, Blocked)
     IN  dtask' = IF kr.ret = pdPASS
                  THEN [dtask EXCEPT !.pc = "running", !.wake = 0, !.call = NoDelayCall,
                                     !.onGrid = IF dtask.pc = "delayed"
                                                THEN OnGrid(now) ELSE @,
                                     !.cut = @ \/ dtask.pc = "delayed"]
                  ELSE [dtask EXCEPT !.call = NoDelayCall]
  /\ UNCHANGED <<xTickCount, uxSchedulerSuspended, xPendedTicks, now>>
  /\ UNCHANGED exceptDelay

\* task.suspend(), called by another task or by the task in its loop body:
\* the task is suspended; a delay it was blocked in is over when it is
\* resumed, whatever its wake time was.
DelaySuspend ==
  /\ uxSchedulerSuspended = 0
  /\ LET c == TaskBase_suspend(dtask.this, NoAnswer).calls[1]
         t == vTaskSuspend(c, dtask)
     IN  dtask' = [t EXCEPT !.call = NoDelayCall,
                           !.onGrid = IF dtask.pc = "delayed" THEN OnGrid(now) ELSE @,
                           !.cut = @ \/ dtask.pc = "delayed"]
  /\ UNCHANGED <<xTickCount, uxSchedulerSuspended, xPendedTicks, now>>
  /\ UNCHANGED exceptDelay

\* task.resume(), called by another task.
DelayResume ==
  /\ uxSchedulerSuspended = 0
  /\ LET c == TaskBase_resume(dtask.this, NoAnswer).calls[1]
     IN  dtask' = [vTaskResume(c, dtask) EXCEPT !.call = NoDelayCall]
  /\ UNCHANGED <<xTickCount, uxSchedulerSuspended, xPendedTicks, now>>
  /\ UNCHANGED exceptDelay

\* task.resumeFromISR(), called by an interrupt handler, which uses the
\* result for its yield only.
DelayResumeFromISR(runsNext) ==
  /\ LET c == TaskBase_resumeFromISR(dtask.this, NoAnswer).calls[1]
         kr == xTaskResumeFromISR(c, dtask, runsNext)
     IN  dtask' = [kr.task EXCEPT !.call = NoDelayCall]
  /\ UNCHANGED <<xTickCount, uxSchedulerSuspended, xPendedTicks, now>>
  /\ UNCHANGED exceptDelay

\* Kernel::suspendAll(): no context switch until the matching resumeAll();
\* ticks are held back meanwhile.
DelaySuspendAll ==
  /\ uxSchedulerSuspended < MaxSuspendAll
  /\ Kernel_suspendAll(NoAnswer).calls[1].fn = "vTaskSuspendAll"
  /\ uxSchedulerSuspended' = uxSchedulerSuspended + 1
  /\ dtask' = [dtask EXCEPT !.call = NoDelayCall]
  /\ UNCHANGED <<xTickCount, xPendedTicks, now>>
  /\ UNCHANGED exceptDelay

\* Kernel::resumeAll(): the last one resumes the scheduler, and the kernel
\* counts the ticks it held back.
DelayResumeAll ==
  /\ uxSchedulerSuspended > 0
  /\ Kernel_resumeAll(NoAnswer).calls[1].fn = "xTaskResumeAll"
  /\ uxSchedulerSuspended' = uxSchedulerSuspended - 1
  /\ IF uxSchedulerSuspended = 1
     THEN TicksPass(xPendedTicks) /\ xPendedTicks' = 0
     ELSE /\ dtask' = [dtask EXCEPT !.call = NoDelayCall]
          /\ UNCHANGED <<xTickCount, xPendedTicks, now>>
  /\ UNCHANGED exceptDelay

\* The tick interrupt: the counter advances (and wraps) and a blocked task
\* whose wake time has come is unblocked; with the scheduler suspended the
\* tick is held back.
DelayTick ==
  /\ now + xPendedTicks < MaxTicks
  /\ BeforeWrap(now + xPendedTicks + 1)
  /\ IF uxSchedulerSuspended = 0
     THEN TicksPass(1) /\ UNCHANGED xPendedTicks
     ELSE /\ xPendedTicks < MaxPended
          /\ xPendedTicks' = xPendedTicks + 1
          /\ dtask' = [dtask EXCEPT !.call = NoDelayCall]
          /\ UNCHANGED <<xTickCount, now>>
  /\ UNCHANGED uxSchedulerSuspended
  /\ UNCHANGED exceptDelay

\* Kernel::stepTick(n) after a tickless idle period: the count skips n ticks
\* forward, not past the time at which the blocked task is to be unblocked.
DelayStepTick(n) ==
  /\ uxSchedulerSuspended = 0
  /\ now + n <= MaxTicks
  /\ BeforeWrap(now + n)
  /\ Blocked => n <= TicksToWake
  /\ TicksPass(Kernel_stepTick(n, NoAnswer).calls[1].args[1])
  /\ UNCHANGED <<uxSchedulerSuspended, xPendedTicks>>
  /\ UNCHANGED exceptDelay

\* Kernel::catchUpTicks(n) after n missed tick interrupts: the count moves n
\* ticks forward, unblocking the blocked task if its wake time is passed.
DelayCatchUpTicks(n) ==
  /\ uxSchedulerSuspended = 0
  /\ now + n <= MaxTicks
  /\ BeforeWrap(now + n)
  /\ TicksPass(Kernel_catchUpTicks(n, NoAnswer).calls[1].args[1])
  /\ UNCHANGED <<uxSchedulerSuspended, xPendedTicks>>
  /\ UNCHANGED exceptDelay

NextDelay ==
  \/ DelayTaskEntry
  \/ DelayUntilCall
  \/ \E n \in SleepTicks : DelayCall(n)
  \/ DelayAbort
  \/ DelaySuspend
  \/ DelayResume
  \/ \E runsNext \in BOOLEAN : DelayResumeFromISR(runsNext)
  \/ DelaySuspendAll
  \/ DelayResumeAll
  \/ DelayTick
  \/ \E n \in TickCounts : DelayStepTick(n)
  \/ \E n \in TickCounts : DelayCatchUpTicks(n)


(***************************************************************************)
(* Properties of the periodic task layer.                                  *)
(***************************************************************************)
\* C9 as stated: taskEntry() sets previousWakeTime to the tick count at
\* which the task first runs; each delayUntil(T) advances previousWakeTime by
\* T and, when it blocks, unblocks the task at that time.  So while every
\* loop body has ended before the next wake time, the k-th delayUntil(T)
\* returns at entryTick + k * T.
C9_PeriodicWake ==
  /\ dtask.pc # "new" =>
       dtask.this.previousWakeTime = (dtask.entry + dtask.k * dtask.T) % TickModulus
  /\ dtask.pc = "delayed" =>
       /\ dtask.wake = dtask.this.previousWakeTime
       /\ now < dtask.entry + dtask.k * dtask.T
  /\ dtask.onGrid

\* C9, amended: taskEntry() sets previousWakeTime to the tick count at which
\* the task first runs and each delayUntil(T) advances it by T; as long as
\* no abortDelay() or suspend() has taken the task out of a delayUntil before
\* its wake time, a delayUntil(T) that blocks unblocks the task at previousWakeTime,
\* and while every loop body has ended before the next wake time the k-th
\* delayUntil(T) returns at entryTick + k * T, whether the ticks are counted
\* by the tick interrupt, stepTick() or catchUpTicks().
C9_PeriodicWakeUnlessAborted ==
  /\ dtask.pc # "new" =>
       dtask.this.previousWakeTime = (dtask.entry + dtask.k * dtask.T) % TickModulus
  /\ (dtask.pc = "delayed" /\ ~dtask.cut) =>
       /\ dtask.wake = dtask.this.previousWakeTime
       /\ now < dtask.entry + dtask.k * dtask.T
  /\ ~dtask.cut => dtask.onGrid

\* A task that first ran at tick 2 with period 3 has been woken on time for
\* the fifth time, at tick 17, after the tick counter wrapped.
C9_Witness ==
  /\ dtask.pc = "running"
  /\ dtask.entry = 2
  /\ dtask.T = 3
  /\ dtask.k = 5
  /\ dtask.onTime
  /\ dtask.onGrid
  /\ ~dtask.cut
  /\ now = 17
  /\ xTickCount = 17 % TickModulus

\* C10: delayUntil(timeIncrement) returns true exactly if the task was
\* delayed; if the next expected wake time (previousWakeTime +
\* timeIncrement) is already in the past when it is called, the task is not
\* blocked and the call returns false; if that time is still to come, and
\* the previous wake time is not (no abortDelay() let the task run ahead of
\* it), the task is delayed.
C10_FalseWhenLate ==
  dtask.call.made =>
    /\ dtask.call.ret <=> dtask.call.blocked
    /\ dtask.call.due < dtask.call.at => (~dtask.call.ret /\ ~dtask.call.blocked)
    /\ (dtask.call.due > dtask.call.at /\ ~dtask.call.early) => dtask.call.ret

\* A delayUntil(2) call made 3 ticks after its wake time, with the tick
\* counter wrapped in between, returned false without blocking.
C10_Witness ==
  /\ dtask.call.made
  /\ dtask.T = 2
  /\ dtask.call.at = dtask.call.due + 3
  /\ dtask.call.at >= TickModulus
  /\ dtask.call.due < TickModulus
  /\ ~dtask.call.ret
  /\ dtask.pc = "running"

(***************************************************************************)
(* Mutex layer: tasks and an interrupt handler lock and unlock one Mutex   *)
(* object.  lock, unlock and lockFromISR are the wrapper operators         *)
(* above; the kernel semaphore they call into is modelled from the         *)
(* behaviour Mutex.hpp documents for xSemaphoreTake and xSemaphoreGive.    *)
(***************************************************************************)
MaxMutexWait == 2                      \* the longest finite ticksToWait callers use
MutexTasks == {"t1", "t2", "t3"}
MutexWaits == (0 .. MaxMutexWait) \cup {portMAX_DELAY}
NoHolder == "none"

\* xSemaphoreCreateMutex: the mutex is created available.
xSemaphoreCreateMutex == [count |-> 1, holder |-> NoHolder]

\* Whether kernel call c succeeds on semaphore s: a take needs the token,
\* a give needs the token to be out.
xSemaphoreCanComplete(c, s) ==
  CASE c.fn \in {"xSemaphoreTake", "xSemaphoreTakeFromISR"} -> s.count > 0
    [] c.fn = "xSemaphoreGive" -> s.count = 0
    [] OTHER -> FALSE

\* The kernel's answer to call c on semaphore s.
xSemaphoreAnswer(c, s) ==
  [ret |-> IF xSemaphoreCanComplete(c, s) THEN pdTRUE ELSE pdFALSE,
   woken |-> pdFALSE, out |-> 0]

\* The semaphore after kernel call c made by task t; a take from an ISR
\* removes the token and records no holder.
xSemaphoreAfter(c, s, t) ==
  CASE c.fn = "xSemaphoreTake" /\ xSemaphoreCanComplete(c, s)
         -> [count |-> s.count - 1, holder |-> t]
    [] c.fn = "xSemaphoreTakeFromISR" /\ xSemaphoreCanComplete(c, s)
         -> [count |-> s.count - 1, holder |-> NoHolder]
    [] c.fn = "xSemaphoreGive" /\ xSemaphoreCanComplete(c, s)
         -> [count |-> s.count + 1, holder |-> NoHolder]
    [] OTHER -> s

\* The kernel call lock(ticksToWait) / unlock() makes.
MutexLockCall(ticks) == MutexBase_lock(Object, ticks, NoAnswer).calls[1]
MutexUnlockCall == MutexBase_unlock(Object, NoAnswer).calls[1]

NoMutexCall ==
  [m |-> "none", t |-> "none", asked |-> 0, elapsed |-> 0, blocked |-> FALSE,
   freed |-> FALSE, ret |-> FALSE, heldBefore |-> {}, avail |-> FALSE]
NotLocking == [on |-> FALSE, asked |-> 0, left |-> 0, freed |-> FALSE]

\* The mutex layer before any call: the mutex exists and nobody holds it.
MutexStart ==
  /\ msem = xSemaphoreCreateMutex
  /\ mwait = [t \in MutexTasks |-> NotLocking]
  /\ mheld = {}
  /\ mlast = NoMutexCall
  /\ mstray = FALSE
MutexIdle == MutexStart

\* lock(asked) called by task t returns, after t was blocked or not.
MutexLockReturn(t, asked, left, blocked, freed) ==
  LET c == MutexLockCall(asked)
      kr == xSemaphoreAnswer(c, msem)
      w == MutexBase_lock(Object, asked, kr)
  IN  /\ msem' = xSemaphoreAfter(c, msem, t)
      /\ mheld' = IF w.ret THEN mheld \cup {t} ELSE mheld
      /\ mlast' = [m |-> "lock", t |-> t, asked |-> asked,
                   elapsed |-> asked - left, blocked |-> blocked,
                   freed |-> freed, ret |-> w.ret, heldBefore |-> mheld,
                   avail |-> msem.count > 0]
      /\ UNCHANGED mstray

\* Task t calls lock(ticks); it returns at once, or t blocks inside the kernel.
MutexLock(t, ticks) ==
  /\ ~mwait[t].on
  /\ LET c == MutexLockCall(ticks)
     IN  IF xSemaphoreCanComplete(c, msem) \/ c.args[1] = 0
         THEN /\ MutexLockReturn(t, ticks, ticks, FALSE, FALSE)
              /\ UNCHANGED mwait
         ELSE /\ mwait' = [mwait EXCEPT ![t] = [on |-> TRUE, asked |-> ticks,
                                                left |-> ticks, freed |-> FALSE]]
              /\ UNCHANGED <<msem, mheld, mlast, mstray>>
  /\ UNCHANGED exceptMutex

\* Task t calls unlock(), whether or not it holds the mutex.
MutexUnlock(t) ==
  /\ ~mwait[t].on
  /\ LET c == MutexUnlockCall
         kr == xSemaphoreAnswer(c, msem)
         w == MutexBase_unlock(Object, kr)
     IN  /\ msem' = xSemaphoreAfter(c, msem, t)
         /\ mheld' = IF w.ret THEN mheld \ {t} ELSE mheld
         /\ mwait' = [u \in MutexTasks |->
                        IF mwait[u].on /\ w.ret
                        THEN [mwait[u] EXCEPT !.freed = TRUE] ELSE mwait[u]]
         /\ mlast' = [m |-> "unlock", t |-> t, asked |-> 0, elapsed |-> 0,
                      blocked |-> FALSE, freed |-> FALSE, ret |-> w.ret,
                      heldBefore |-> mheld, avail |-> msem.count > 0]
         /\ mstray' = (mstray \/ (w.ret /\ t \notin mheld))
  /\ UNCHANGED exceptMutex

\* A blocked task finds the mutex available and returns from lock.
MutexWake(t) ==
  /\ mwait[t].on
  /\ xSemaphoreCanComplete(MutexLockCall(mwait[t].asked), msem)
  /\ MutexLockReturn(t, mwait[t].asked, mwait[t].left, TRUE, mwait[t].freed)
  /\ mwait' = [mwait EXCEPT ![t] = NotLocking]
  /\ UNCHANGED exceptMutex

\* A blocked task's block time has expired with the mutex still taken.
MutexTimeout(t) ==
  /\ mwait[t].on
  /\ mwait[t].asked # portMAX_DELAY
  /\ mwait[t].left = 0
  /\ ~xSemaphoreCanComplete(MutexLockCall(mwait[t].asked), msem)
  /\ MutexLockReturn(t, mwait[t].asked, mwait[t].left, TRUE, mwait[t].freed)
  /\ mwait' = [mwait EXCEPT ![t] = NotLocking]
  /\ UNCHANGED exceptMutex

\* A tick passes for the tasks blocked with a finite block time.
MutexTick ==
  /\ \E t \in MutexTasks : mwait[t].on /\ mwait[t].asked # portMAX_DELAY
  /\ \A t \in MutexTasks :
       mwait[t].on /\ mwait[t].asked # portMAX_DELAY => mwait[t].left > 0
  /\ mwait' = [t \in MutexTasks |->
                 IF mwait[t].on /\ mwait[t].asked # portMAX_DELAY
                 THEN [mwait[t] EXCEPT !.left = @ - 1] ELSE mwait[t]]
  /\ UNCHANGED <<msem, mheld, mlast, mstray>>
  /\ UNCHANGED exceptMutex

\* An interrupt handler calls lockFromISR(higherPriorityTaskWoken) or
\* lockFromISR(); it never blocks.
MutexLockFromISR(withFlag) ==
  LET c == IF withFlag
           THEN MutexBase_lockFromISR(Object, FALSE, NoAnswer).calls[1]
           ELSE MutexBase_lockFromISR0(Object, NoAnswer).calls[1]
      kr == xSemaphoreAnswer(c, msem)
      w == IF withFlag
           THEN MutexBase_lockFromISR(Object, FALSE, kr)
           ELSE MutexBase_lockFromISR0(Object, kr)
  IN  /\ msem' = xSemaphoreAfter(c, msem, Isr)
      /\ mlast' = [m |-> "lockFromISR", t |-> Isr, asked |-> 0, elapsed |-> 0,
                   blocked |-> FALSE, freed |-> FALSE, ret |-> w.ret,
                   heldBefore |-> mheld, avail |-> msem.count > 0]
      /\ mstray' = (mstray \/ w.ret)
      /\ UNCHANGED <<mwait, mheld>>
      /\ UNCHANGED exceptMutex

NextMutex ==
  \/ \E t \in MutexTasks : \E ticks \in MutexWaits : MutexLock(t, ticks)
  \/ \E t \in MutexTasks : MutexUnlock(t)
  \/ \E t \in MutexTasks : MutexWake(t)
  \/ \E t \in MutexTasks : MutexTimeout(t)
  \/ MutexTick
  \/ \E withFlag \in BOOLEAN : MutexLockFromISR(withFlag)

\* C11 as stated: at most one task holds the Mutex at any time, in every
\* interleaving.  lock() returns true for a task only when no task held the
\* mutex; a lock(ticksToWait) that had to wait returns true only after an
\* unlock() made within ticksToWait ticks, and returns false only when the
\* whole of ticksToWait has passed and the mutex is still held.
C11_MutualExclusion ==
  /\ Cardinality(mheld) <= 1
  /\ mlast.m = "lock" /\ mlast.ret
       => /\ mlast.heldBefore = {}
          /\ mheld = {mlast.t}
          /\ mlast.elapsed <= mlast.asked
          /\ mlast.blocked => mlast.freed
  /\ mlast.m = "lock" /\ ~mlast.ret
       => /\ mlast.elapsed = mlast.asked
          /\ mlast.asked # portMAX_DELAY
  /\ mlast.m = "lock" /\ mlast.blocked /\ ~mlast.freed => ~mlast.ret

\* C11 amended: lock() and lockFromISR() return true only when the mutex
\* was available; a lock(ticksToWait) that had to wait returns true only
\* after an unlock() returned true within ticksToWait ticks, and returns
\* false only when the whole of ticksToWait has passed and the mutex is not
\* available.  As long as every unlock() that returned true was called by
\* the task holding the mutex and no lockFromISR() has taken it, at most
\* one task holds the mutex, lock() returns true only when no task held it
\* and false only when a task holds it.
C11_ExclusionWhenHolderUnlocks ==
  /\ mlast.m \in {"lock", "lockFromISR"} /\ mlast.ret => mlast.avail
  /\ mlast.m = "lock" /\ mlast.ret
       => /\ mlast.elapsed <= mlast.asked
          /\ mlast.blocked => mlast.freed
  /\ mlast.m = "lock" /\ ~mlast.ret
       => /\ ~mlast.avail
          /\ mlast.elapsed = mlast.asked
          /\ mlast.asked # portMAX_DELAY
  /\ ~mstray
       => /\ Cardinality(mheld) <= 1
          /\ mlast.m = "lock" /\ mlast.ret
               => mlast.heldBefore = {} /\ mheld = {mlast.t}
          /\ mlast.m = "lock" /\ ~mlast.ret => mlast.heldBefore # {}

\* With the holder alone unlocking, a second task waited in
\* lock(MaxMutexWait) and got the mutex after the holder's unlock, one tick
\* into its wait, while a third task still waits.
C11_Witness ==
  /\ ~mstray
  /\ mlast.m = "lock" /\ mlast.ret /\ mlast.blocked /\ mlast.freed
  /\ mlast.asked = MaxMutexWait /\ mlast.elapsed = 1
  /\ mheld = {mlast.t}
  /\ \E u \in MutexTasks : mwait[u].on /\ mwait[u].freed

(***************************************************************************)
(* Object lifetime layer: wrapper objects of one class are constructed,    *)
(* move constructed, move assigned and destroyed; a timer may also be      *)
(* deleted with deleteTimer() and given a delete block time.               *)
(* Constructors, destructors and the defaulted move operations are         *)
(* translated from the class definitions; the kernel's create and delete   *)
(* functions are modelled from the behaviour the headers document.         *)
(***************************************************************************)
LifeObjects == {"a", "b", "c"}
KernelHandles == <<"k1", "k2", "k3">>
Heap == "heap"
MaxDeleteCalls == 2                    \* deleteTimer() calls made in one run

DynamicClasses ==
  {"Mutex", "RecursiveMutex", "BinarySemaphore", "CountingSemaphore",
   "Queue", "EventGroup", "StreamBuffer", "MessageBuffer"}
StaticClasses ==
  {"StaticMutex", "StaticRecursiveMutex", "StaticBinarySemaphore",
   "StaticCountingSemaphore", "StaticQueue", "StaticEventGroup",
   "StaticStreamBuffer", "StaticMessageBuffer", "StaticTask", "StaticTimer"}
LifeClasses == DynamicClasses \cup StaticClasses

\* The kernel function the constructor of class cls calls.
CreateFn(cls) ==
  CASE cls = "Mutex" -> "xSemaphoreCreateMutex"
    [] cls = "RecursiveMutex" -> "xSemaphoreCreateRecursiveMutex"
    [] cls = "BinarySemaphore" -> "xSemaphoreCreateBinary"
    [] cls = "CountingSemaphore" -> "xSemaphoreCreateCounting"
    [] cls = "Queue" -> "xQueueCreate"
    [] cls = "EventGroup" -> "xEventGroupCreate"
    [] cls = "StreamBuffer" -> "xStreamBufferCreate"
    [] cls = "MessageBuffer" -> "xMessageBufferCreate"
    [] cls = "StaticMutex" -> "xSemaphoreCreateMutexStatic"
    [] cls = "StaticRecursiveMutex" -> "xSemaphoreCreateRecursiveMutexStatic"
    [] cls = "StaticBinarySemaphore" -> "xSemaphoreCreateBinaryStatic"
    [] cls = "StaticCountingSemaphore" -> "xSemaphoreCreateCountingStatic"
    [] cls = "StaticQueue" -> "xQueueCreateStatic"
    [] cls = "StaticEventGroup" -> "xEventGroupCreateStatic"
    [] cls = "StaticStreamBuffer" -> "xStreamBufferCreateStatic"
    [] cls = "StaticMessageBuffer" -> "xMessageBufferCreateStatic"
    [] cls = "StaticTask" -> "xTaskCreateStatic"
    [] cls = "StaticTimer" -> "xTimerCreateStatic"

\* The member of a statically allocated class that holds the control block.
ControlBlock(cls) ==
  CASE cls = "StaticMutex" -> "staticMutex"
    [] cls = "StaticRecursiveMutex" -> "staticRecursiveMutex"
    [] cls = "StaticBinarySemaphore" -> "staticBinarySemaphore"
    [] cls = "StaticCountingSemaphore" -> "staticCountingSemaphore"
    [] cls = "StaticQueue" -> "staticQueue"
    [] cls = "StaticEventGroup" -> "staticEventGroup"
    [] cls = "StaticStreamBuffer" -> "staticStreamBuffer"
    [] cls = "StaticMessageBuffer" -> "staticMessageBuffer"
    [] cls = "StaticTask" -> "taskBuffer"
    [] cls = "StaticTimer" -> "staticTimer"

\* The kernel function the base class destructor of class cls calls.
DeleteFn(cls) ==
  CASE cls \in {"Mutex", "RecursiveMutex", "BinarySemaphore", "CountingSemaphore",
                "StaticMutex", "StaticRecursiveMutex", "StaticBinarySemaphore",
                "StaticCountingSemaphore"} -> "vSemaphoreDelete"
    [] cls \in {"Queue", "StaticQueue"} -> "vQueueDelete"
    [] cls \in {"EventGroup", "StaticEventGroup"} -> "vEventGroupDelete"
    [] cls \in {"StreamBuffer", "StaticStreamBuffer"} -> "vStreamBufferDelete"
    [] cls \in {"MessageBuffer", "StaticMessageBuffer"} -> "vMessageBufferDelete"
    [] cls = "StaticTask" -> "vTaskDelete"
    [] cls = "StaticTimer" -> "xTimerDelete"

\* The fields of a wrapper object as declared (handle = NULL); id stands for
\* the object's address, where its members live.
LifeFields(o) == [id |-> o, handle |-> NULL, deleteBlockTime |-> 0]

\* The constructor of class cls:  this->handle = x...Create...(...);  a
\* statically allocated class passes the address of its own control block.
Wrapper_constructor(cls, this, kr) ==
  [calls |-> <<KCall(CreateFn(cls), NoHandle,
                     IF cls \in StaticClasses
                     THEN <<[of |-> this.id, member |-> ControlBlock(cls)]>>
                     ELSE <<>>,
                     NoWokenPtr)>>,
   this |-> [this EXCEPT !.handle = kr.ret]]

\* The defaulted move constructor and move assignment ( = default ): each
\* member of this takes the value of the same member of other, and other
\* keeps its own.
Defaulted_move(this, other) ==
  [this EXCEPT !.handle = other.handle,
               !.deleteBlockTime = other.deleteBlockTime]

\* The destructor of class cls, that is the destructor of its base class.
Wrapper_destructor(cls, this, INCLUDE_vTaskDelete, kr) ==
  CASE cls = "StaticTask" -> TaskBase_destructor(this, INCLUDE_vTaskDelete)
    [] cls = "StaticTimer" -> TimerBase_destructor(this, kr).calls
    [] OTHER -> <<KCall(DeleteFn(cls), this.handle, <<>>, NoWokenPtr)>>

\* Kernel create function: a new kernel object whose handle is returned; a
\* ...Static function builds it in the control block it is given, the others
\* take it from the heap and return NULL when there is no memory.
xCreate(c, k, enoughMemory) ==
  IF c.args # <<>> \/ enoughMemory
  THEN LET h == KernelHandles[Len(k.objs) + 1]
       IN  [ret |-> h, woken |-> pdFALSE, out |-> 0,
            k |-> [k EXCEPT !.objs =
                     Append(@, [handle |-> h, fn |-> c.fn,
                                storage |-> IF c.args # <<>> THEN c.args[1].of ELSE Heap,
                                deletes |-> 0, stale |-> FALSE])]]
  ELSE [ret |-> NULL, woken |-> pdFALSE, out |-> 0, k |-> k]

\* Kernel delete function called with call c while the objects in alive
\* exist: it works on the storage of the kernel object the handle names.
xDelete(c, k, alive) ==
  IF c.handle = NULL
  THEN [k EXCEPT !.nullDeletes = @ + 1]
  ELSE [k EXCEPT !.objs =
          [i \in 1 .. Len(k.objs) |->
             IF k.objs[i].handle = c.handle
             THEN [k.objs[i] EXCEPT
                     !.deletes = @ + 1,
                     !.stale = @ \/ k.objs[i].storage \notin alive \cup {Heap}]
             ELSE k.objs[i]]]

RECURSIVE xDeleteAll(_, _, _)
xDeleteAll(cs, k, alive) ==
  IF cs = <<>> THEN k ELSE xDeleteAll(Tail(cs), xDelete(Head(cs), k, alive), alive)

Alive == {o \in LifeObjects : lobj[o].life = "live"}

\* The classes derived from TimerBase.
TimerClasses == {"StaticTimer"}

\* The objects a run declares: three, or two timers (which have more
\* methods to call).
ObjectsOf(cls) == IF cls \in TimerClasses THEN {"a", "b"} ELSE LifeObjects

\* How the timer command queue takes a delete command: it has room, it is
\* full and the block time is 0 or runs out, or it is full and the caller
\* is held until one of the two happens.
LifeAnswers == {"accepted", "refused", "waits"}

\* No call of the object is held on the timer command queue.
NoWait == [name |-> "none", calls |-> <<>>]

\* The kernel's answer to a delete command.
xTimerDeleteAnswer(accepted) ==
  [ret |-> IF accepted THEN pdPASS ELSE 0, woken |-> pdFALSE, out |-> 0]

\* The objects are used by one task: while it is held in a call, no other
\* call is made.
TaskHeld == \E o \in LifeObjects : lobj[o].wait # NoWait

\* The object can be used: it is alive and the task is not held.
Usable(o) == lobj[o].life = "live" /\ ~TaskHeld

\* The lifetime layer before any object exists.
LifeStart(cls, del) ==
  /\ lobj = [o \in LifeObjects |->
               [life |-> "none", this |-> LifeFields(o), wait |-> NoWait]]
  /\ lkern = [objs |-> <<>>, nullDeletes |-> 0, ndel |-> 0]
  /\ lcfg = [cls |-> cls, INCLUDE_vTaskDelete |-> del]
LifeIdle == LifeStart("Mutex", 1)

\* Object o is constructed:  Mutex o;
LifeConstruct(o, enoughMemory) ==
  /\ o \in ObjectsOf(lcfg.cls)
  /\ lobj[o].life = "none"
  /\ ~TaskHeld
  /\ LET c == Wrapper_constructor(lcfg.cls, lobj[o].this, NoAnswer).calls[1]
         kr == xCreate(c, lkern, enoughMemory)
         w == Wrapper_constructor(lcfg.cls, lobj[o].this, kr)
     IN  /\ lobj' = [lobj EXCEPT ![o].life = "live", ![o].this = w.this]
         /\ lkern' = kr.k
  /\ UNCHANGED lcfg
  /\ UNCHANGED exceptLife

\* Object o is move constructed from src:  Mutex o(std::move(src));
LifeMoveConstruct(o, src) ==
  /\ o # src
  /\ o \in ObjectsOf(lcfg.cls)
  /\ lobj[o].life = "none"
  /\ Usable(src)
  /\ lobj' = [lobj EXCEPT ![o].life = "live",
                          ![o].this = Defaulted_move(lobj[o].this, lobj[src].this)]
  /\ UNCHANGED <<lkern, lcfg>>
  /\ UNCHANGED exceptLife

\* Object o is move assigned from src:  o = std::move(src);
LifeMoveAssign(o, src) ==
  /\ o # src
  /\ Usable(o)
  /\ Usable(src)
  /\ lobj' = [lobj EXCEPT ![o].this = Defaulted_move(lobj[o].this, lobj[src].this)]
  /\ UNCHANGED <<lkern, lcfg>>
  /\ UNCHANGED exceptLife

\* The kernel call of the waiting method of o returns: a delete command
\* that was accepted is counted, and the method acts on the answer.
LifeReturn(o, name, calls, accepted) ==
  LET kr == xTimerDeleteAnswer(accepted)
      this == IF name = "deleteTimer"
              THEN TimerBase_deleteTimer(lobj[o].this, calls[1].args[1], kr).this
              ELSE lobj[o].this
  IN  /\ lkern' = IF accepted THEN xDeleteAll(calls, lkern, Alive) ELSE lkern
      /\ lobj' = [lobj EXCEPT ![o].this = this,
                              ![o].wait = NoWait,
                              ![o].life = IF name = "deleteTimer" THEN @ ELSE "dead"]

\* A delete command of method name of o goes to the kernel, which answers
\* at once or holds the caller.
LifeCommand(o, name, calls, answer) ==
  IF answer = "waits"
  THEN /\ calls[1].args[1] > 0
       /\ lobj' = [lobj EXCEPT ![o].wait = [name |-> name, calls |-> calls]]
       /\ UNCHANGED lkern
  ELSE LifeReturn(o, name, calls, answer = "accepted")

\* Object o is destroyed: its destructor runs, then its members are gone.
\* A timer's destructor sends a delete command with the object's delete
\* block time.
LifeDestroy(o, answer) ==
  /\ Usable(o)
  /\ LET cs == Wrapper_destructor(lcfg.cls, lobj[o].this, lcfg.INCLUDE_vTaskDelete,
                                  NoAnswer)
     IN  IF lcfg.cls \in TimerClasses /\ cs # <<>>
         THEN LifeCommand(o, "~TimerBase", cs, answer)
         ELSE /\ answer = "accepted"
              /\ lkern' = xDeleteAll(cs, lkern, Alive)
              /\ lobj' = [lobj EXCEPT ![o].life = "dead"]
  /\ UNCHANGED lcfg
  /\ UNCHANGED exceptLife

\* o.deleteTimer(blockTime);
LifeDeleteTimer(o, blockTime, answer) ==
  /\ lcfg.cls \in TimerClasses
  /\ Usable(o)
  /\ lkern.ndel < MaxDeleteCalls
  /\ LET cs == TimerBase_deleteTimer(lobj[o].this, blockTime, NoAnswer).calls
         k == [lkern EXCEPT !.ndel = @ + 1]
     IN  /\ answer = "waits" => blockTime > 0
         /\ IF answer = "waits"
            THEN /\ lobj' = [lobj EXCEPT ![o].wait = [name |-> "deleteTimer", calls |-> cs]]
                 /\ lkern' = k
            ELSE LET kr == xTimerDeleteAnswer(answer = "accepted")
                     w == TimerBase_deleteTimer(lobj[o].this, blockTime, kr)
                 IN  /\ lkern' = IF w.ret THEN xDeleteAll(cs, k, Alive) ELSE k
                     /\ lobj' = [lobj EXCEPT ![o].this = w.this]
  /\ UNCHANGED lcfg
  /\ UNCHANGED exceptLife

\* The caller held in deleteTimer() or in the destructor of o is released:
\* the queue took the command, or the block time ran out.
LifeWake(o, accepted) ==
  /\ lobj[o].life = "live"
  /\ lobj[o].wait # NoWait
  /\ LifeReturn(o, lobj[o].wait.name, lobj[o].wait.calls, accepted)
  /\ UNCHANGED lcfg
  /\ UNCHANGED exceptLife

\* o.setDeleteBlockTime(deleteBlockTime);
LifeSetDeleteBlockTime(o, deleteBlockTime) ==
  /\ lcfg.cls \in TimerClasses
  /\ Usable(o)
  /\ lobj[o].this.deleteBlockTime # deleteBlockTime
  /\ lobj' = [lobj EXCEPT ![o].this = TimerBase_setDeleteBlockTime(@, deleteBlockTime)]
  /\ UNCHANGED <<lkern, lcfg>>
  /\ UNCHANGED exceptLife

NextLife ==
  \/ \E o \in LifeObjects : \E enoughMemory \in BOOLEAN : LifeConstruct(o, enoughMemory)
  \/ \E o, src \in LifeObjects : LifeMoveConstruct(o, src)
  \/ \E o, src \in LifeObjects : LifeMoveAssign(o, src)
  \/ \E o \in LifeObjects : \E answer \in LifeAnswers : LifeDestroy(o, answer)
  \/ \E o \in LifeObjects : \E bt \in BlockTimes : \E answer \in LifeAnswers :
       LifeDeleteTimer(o, bt, answer)
  \/ \E o \in LifeObjects : \E accepted \in BOOLEAN : LifeWake(o, accepted)
  \/ \E o \in LifeObjects : \E bt \in BlockTimes : LifeSetDeleteBlockTime(o, bt)


\* The kernel object a handle names.
KernelObject(h) == CHOOSE x \in Range(lkern.objs) : x.handle = h

\* C12: each kernel object created by a constructor of Mutex, RecursiveMutex,
\* BinarySemaphore, CountingSemaphore, Queue, EventGroup, StreamBuffer or
\* MessageBuffer is deleted exactly once: no two live objects hold the same
\* non-NULL handle, no handle is passed to the delete function twice, and
\* once every object is destroyed each created handle has been deleted.
C12_DeletedExactlyOnce ==
  lcfg.cls \in DynamicClasses =>
    /\ \A o, p \in Alive :
         o # p /\ lobj[o].this.handle # NULL
           => lobj[o].this.handle # lobj[p].this.handle
    /\ \A x \in Range(lkern.objs) : x.deletes <= 1
    /\ Alive = {} => \A x \in Range(lkern.objs) : x.deletes = 1

\* C13: in every statically allocated class a non-NULL handle names the
\* kernel object built in the control block of the same wrapper object,
\* also after a move, and the kernel never works on the storage of an
\* object that has been destroyed.
C13_HandleInOwnStorage ==
  lcfg.cls \in StaticClasses =>
    /\ \A o \in Alive :
         lobj[o].this.handle # NULL
           => KernelObject(lobj[o].this.handle).storage = o
    /\ \A x \in Range(lkern.objs) : ~x.stale

(***************************************************************************)
(* Specifications.                                                         *)
(***************************************************************************)
InitCall ==
  /\ LifeIdle /\ MutexIdle /\ QueueIdle /\ TaskIdle /\ TimerIdle /\ DelayIdle
  /\ \E c \in CallClasses : \E created \in BOOLEAN :
       (c = "Kernel" => created) /\ CallStart(c, created)
SpecCall == InitCall /\ [][NextCall]_vars

InitQueue == LifeIdle /\ MutexIdle /\ CallIdle /\ TaskIdle /\ TimerIdle /\ DelayIdle /\ \E n \in QueueLengths : QueueStart(n)
SpecQueue == InitQueue /\ [][NextQueue]_vars

InitMailbox == LifeIdle /\ MutexIdle /\ CallIdle /\ TaskIdle /\ TimerIdle /\ DelayIdle /\ QueueStart(1)
SpecMailbox == InitMailbox /\ [][NextMailbox]_vars

InitTask ==
  /\ LifeIdle /\ MutexIdle /\ CallIdle /\ QueueIdle /\ TimerIdle /\ DelayIdle
  /\ \E del \in {0, 1} : \E heap \in 0 .. MaxTaskHeap : TaskStart(del, heap)
SpecTask == InitTask /\ [][NextTask]_vars

InitTimer ==
  /\ LifeIdle /\ MutexIdle /\ CallIdle /\ QueueIdle /\ TaskIdle /\ DelayIdle
  /\ \E asserts \in BOOLEAN : TimerStartState(asserts)
SpecTimer == InitTimer /\ [][NextTimer]_vars

InitDelay ==
  /\ LifeIdle /\ MutexIdle /\ CallIdle /\ QueueIdle /\ TaskIdle /\ TimerIdle
  /\ \E T \in DelayPeriods : DelayStart(T)
SpecDelay == InitDelay /\ [][NextDelay]_vars

InitMutex ==
  /\ LifeIdle /\ CallIdle /\ QueueIdle /\ TaskIdle /\ TimerIdle /\ DelayIdle
  /\ MutexStart
SpecMutex == InitMutex /\ [][NextMutex]_vars

InitLife ==
  /\ MutexIdle /\ CallIdle /\ QueueIdle /\ TaskIdle /\ TimerIdle /\ DelayIdle
  /\ \E cls \in LifeClasses : \E del \in {0, 1} : LifeStart(cls, del)
SpecLife == InitLife /\ [][NextLife]_vars
====
